---------------------------- MODULE Spec2Model ----------------------------
(***************************************************************************)
(* QRtistry: the QR rasterization engine (src/qr) as a state machine.      *)
(*                                                                         *)
(* One call of generate_qr_image is followed through its numbered steps:   *)
(* matrix generation, dimension arithmetic, base canvas, the module loop   *)
(* (one step per row of the matrix), logo overlay, overall opacity and the *)
(* return.  The shape rasterizers, the eye styler and the colour selection *)
(* are operators computed as the Rust code computes them.                  *)
(*                                                                         *)
(* Number representation.  Pixel coordinates, sizes and radii are u32 in   *)
(* the code and naturals here.  The f32 comparisons of the rasterizers are *)
(* stated on integers: for module sizes below 200 pixels every operand of  *)
(* draw_circle, draw_dot and draw_rounded_square is a multiple of 1/2 that *)
(* f32 holds exactly, the squared distance is exact, and the correctly     *)
(* rounded square root compares with the radius as the squared distance    *)
(* compares with the squared radius.                                       *)
(***************************************************************************)
EXTENDS Integers, Sequences, FiniteSets, TLC

VARIABLES
    app,          \* QrCodeApp: the configuration handed to generate_qr_image
    code,         \* what the external encoder answers for (qr_text, ec_level)
    pc,           \* position inside generate_qr_image
    module_size,  \* let module_size   (generator.rs:47)
    total_size,   \* let total_size    (generator.rs:49)
    image,        \* let mut image: RgbaImage
    row,          \* the y of the module loop (generator.rs:71)
    row_log,      \* what the last iteration of the y loop did, cell by cell
    result,       \* the Result<RgbaImage, String> returned
    applied,      \* a function applied on its own: its name, arguments, value
    earlier,      \* what the previous call of generate_qr_image returned
    disk,         \* the files the application reads and writes
    ui,           \* QrCodeApp: the fields generate_qr_image does not read
    frames        \* the update calls begun since start-up or the last Reset

vars == <<app, code, pc, module_size, total_size, image, row, row_log, result,
          applied, earlier, disk, ui, frames>>

\* the variables that generate_qr_image and the drawing routines leave alone
outside == <<applied, earlier, disk, ui, frames>>

(***************************************************************************)
(* Bounds of the model.                                                    *)
(***************************************************************************)
\* rendered symbols are QR versions 1..MaxRenderVersion
MaxRenderVersion == 1
\* rendered requests ask for one pixel less than k times the width of the
\* smallest symbol, k in 1..MaxSizeSteps
MaxSizeSteps == 3
\* rendered requests have border 0..MaxRenderBorder modules
MaxRenderBorder == 1
\* single modules are drawn with module sizes 1..MaxModuleSize
MaxModuleSize == 8
\* the colour functions are applied on canvases of sides 1..MaxGradientSide
\* (and of the slider's two ends)
MaxGradientSide == 4
\* and with interpolation factors n / d, d in 1..MaxLerpDenominator
MaxLerpDenominator == 4
\* the logo geometry is computed for QR versions 1..MaxLogoVersion, module
\* sizes 1..MaxLogoModuleSize and borders 0..MaxLogoBorder
MaxLogoVersion == 2
MaxLogoModuleSize == 12
MaxLogoBorder == 2
\* update calls are counted up to MaxFrames
MaxFrames == 2

(***************************************************************************)
(* Program constants.                                                      *)
(***************************************************************************)
\* egui::Slider::new(&mut app.size, 128..=2048)
MinSizePx == 128
MaxSizePx == 2048
\* egui::Slider::new(&mut app.border, 0..=10)
MaxBorderModules == 10
\* QrCode::with_error_correction_level yields versions 1..40
MaxQrVersion == 40

\* module count of a QR symbol of version v (code.width())
WidthOfVersion(v) == 17 + 4 * v

(***************************************************************************)
(* Colours and pixels.  Rgba([r, g, b, a]) is the tuple <<r, g, b, a>>.    *)
(***************************************************************************)
Rgba(rgb, a) == <<rgb[1], rgb[2], rgb[3], a>>

\* QrCodeApp::default(): the colour fields
DefaultFg == <<0, 0, 0>>
DefaultBg == <<255, 255, 255>>
DefaultGradientColor == <<100, 100, 255>>
DefaultEyeColor == <<255, 0, 0>>

\* COLOR_PRESETS "Night": fg and bg
NightFg == <<255, 255, 255>>
NightBg == <<33, 33, 33>>

(***************************************************************************)
(* The encoder's answer.  QrCode::with_error_correction_level is external: *)
(* it either fails or yields a symbol of some version whose matrix has the *)
(* three finder patterns, their light separators, the timing patterns and  *)
(* a data region (filled here with one of a few fixed patterns).           *)
(***************************************************************************)
FinderDark(rx, ry) ==
    \/ rx = 0 \/ rx = 6 \/ ry = 0 \/ ry = 6
    \/ (rx >= 2 /\ rx <= 4 /\ ry >= 2 /\ ry <= 4)

DataDark(seed, x, y) ==
    IF seed = 0 THEN (x + y) % 2 = 0
    ELSE IF seed = 1 THEN (((x * y) % 2) + ((x * y) % 3)) % 2 = 0
    ELSE (x + 2 * y) % 3 = 0

\* matrix[y * qr_width + x] of code.to_colors(), as Dark (TRUE) or Light
to_colors(c, x, y) ==
    LET w == c.width IN
    IF x <= 6 /\ y <= 6 THEN FinderDark(x, y)
    ELSE IF x >= w - 7 /\ y <= 6 THEN FinderDark(x - (w - 7), y)
    ELSE IF x <= 6 /\ y >= w - 7 THEN FinderDark(x, y - (w - 7))
    ELSE IF (x <= 7 /\ y <= 7) \/ (x >= w - 8 /\ y <= 7) \/ (x <= 7 /\ y >= w - 8)
         THEN FALSE
    ELSE IF x = 6 \/ y = 6 THEN (x + y) % 2 = 0
    ELSE DataDark(c.seed, x, y)

(***************************************************************************)
(* f32 arithmetic.  A non-negative finite f32 is [m, e], the value         *)
(* m * 2^e with 2^23 <= m < 2^24, or m = 0 for zero; NaN is m = -1.  Every *)
(* operation rounds to nearest, ties to even, as IEEE 754 does; operands   *)
(* stay below 2^31 (subnormals and overflow do not arise for the pixel     *)
(* and colour magnitudes of this program).                                 *)
(***************************************************************************)
F32Zero == [m |-> 0, e |-> 0]
F32NaN == [m |-> 0 - 1, e |-> 0]
F32One == [m |-> 2^23, e |-> 0 - 23]
IsNaN(f) == f.m < 0

RECURSIVE BitLen(_)
BitLen(n) == IF n = 0 THEN 0 ELSE 1 + BitLen(n \div 2)

\* the f32 nearest to (q + s) * 2^e, where 0 <= s < 1 and sticky says s > 0;
\* with sticky, q has at least 26 bits
RoundNorm(q, sticky, e) ==
    LET b == BitLen(q) IN
    IF q = 0 THEN F32Zero
    ELSE IF b <= 24 THEN [m |-> q * 2^(24 - b), e |-> e - (24 - b)]
    ELSE LET s == b - 24
             top == q \div 2^s
             rem == q % 2^s
             half == 2^(s - 1)
             up == rem > half \/ (rem = half /\ (sticky \/ top % 2 = 1))
             m1 == IF up THEN top + 1 ELSE top
         IN IF m1 = 2^24 THEN [m |-> 2^23, e |-> e + s + 1]
            ELSE [m |-> m1, e |-> e + s]

\* n as f32
F32FromInt(n) == RoundNorm(n, FALSE, 0)

\* a <= b
F32Le(a, b) ==
    /\ ~IsNaN(a) /\ ~IsNaN(b)
    /\ \/ a.m = 0
       \/ (b.m # 0 /\ (a.e < b.e \/ (a.e = b.e /\ a.m <= b.m)))

RECURSIVE DivBits(_, _, _, _)
\* n more quotient bits of r / d after the quotient q: <<quotient, remainder>>
DivBits(r, d, n, q) ==
    IF n = 0 THEN <<q, r>>
    ELSE IF 2 * r >= d THEN DivBits(2 * r - d, d, n - 1, 2 * q + 1)
    ELSE DivBits(2 * r, d, n - 1, 2 * q)

\* a / b  (0/0 is NaN; x/0 for x > 0, an infinity, does not arise)
F32Div(a, b) ==
    IF IsNaN(a) \/ IsNaN(b) \/ b.m = 0 THEN F32NaN
    ELSE IF a.m = 0 THEN F32Zero
    ELSE LET qr == DivBits(a.m % b.m, b.m, 26, a.m \div b.m)
         IN RoundNorm(qr[1], qr[2] # 0, a.e - b.e - 26)

\* (n as f32) * f for an integer 0 <= n < 2^14: the 38-bit product is kept
\* as hi * 2^12 + lo
F32MulInt(n, f) ==
    IF IsNaN(f) THEN F32NaN
    ELSE LET lop == n * (f.m % 4096)
             hi == n * (f.m \div 4096) + lop \div 4096
             lo == lop % 4096
         IN IF hi < 2^18 THEN RoundNorm(hi * 4096 + lo, FALSE, f.e)
            ELSE LET k == 30 - BitLen(hi)
                 IN RoundNorm(hi * 2^k + lo \div 2^(12 - k),
                              lo % 2^(12 - k) # 0, f.e + 12 - k)

\* a * b: the 48-bit product of the mantissas is kept in 12-bit limbs
F32Mul(a, b) ==
    IF IsNaN(a) \/ IsNaN(b) THEN F32NaN
    ELSE IF a.m = 0 \/ b.m = 0 THEN F32Zero
    ELSE LET a1 == a.m \div 4096
             a0 == a.m % 4096
             b1 == b.m \div 4096
             b0 == b.m % 4096
             low == (a0 * b0) % 4096
             mid == a1 * b0 + a0 * b1 + (a0 * b0) \div 4096
             hi == a1 * b1 + mid \div 4096
         IN RoundNorm(hi * 64 + (mid % 4096) \div 64,
                      (mid % 64 # 0) \/ low # 0, a.e + b.e + 18)

\* a + b
F32Add(a, b) ==
    IF IsNaN(a) \/ IsNaN(b) THEN F32NaN
    ELSE IF a.m = 0 THEN b
    ELSE IF b.m = 0 THEN a
    ELSE LET big == IF a.e >= b.e THEN a ELSE b
             small == IF a.e >= b.e THEN b ELSE a
             d == big.e - small.e
             shifted == IF d > 27 THEN 0 ELSE (small.m * 8) \div 2^d
             sticky == IF d > 27 THEN TRUE ELSE (small.m * 8) % 2^d # 0
         IN RoundNorm(big.m * 8 + shifted, sticky, big.e - 3)

\* a - b for a >= b
F32Sub(a, b) ==
    IF IsNaN(a) \/ IsNaN(b) THEN F32NaN
    ELSE IF b.m = 0 THEN a
    ELSE LET d == a.e - b.e
             shifted == IF d > 27 THEN 0 ELSE (b.m * 8) \div 2^d
             sticky == IF d > 27 THEN TRUE ELSE (b.m * 8) % 2^d # 0
             diff == a.m * 8 - shifted - (IF sticky THEN 1 ELSE 0)
         IN RoundNorm(diff, sticky, a.e - 3)

RECURSIVE SqrtBits(_, _, _, _, _)
\* digit-by-digit square root of the integer n: the bit pairs of n from pair
\* i down to pair 0, then zero pairs (f counts them) until the root q has 26
\* bits: <<q, remainder, f>>
SqrtBits(n, i, q, r, f) ==
    IF BitLen(q) >= 26 THEN <<q, r, f>>
    ELSE LET pair == IF i >= 0 THEN (n \div 4^i) % 4 ELSE 0
             r2 == 4 * r + pair
             c == 4 * q + 1
             f2 == IF i >= 0 THEN f ELSE f + 1
         IN IF r2 >= c THEN SqrtBits(n, i - 1, 2 * q + 1, r2 - c, f2)
            ELSE SqrtBits(n, i - 1, 2 * q, r2, f2)

\* sqrt(n / 4) for an integer 0 <= n < 2^30
F32SqrtQuarter(n) ==
    IF n = 0 THEN F32Zero
    ELSE LET s == SqrtBits(n, 14, 0, 0, 0)
         IN RoundNorm(s[1], s[2] # 0, 0 - s[3] - 1)

\* f as u32 (truncation toward zero; NaN gives 0)
F32Trunc(f) ==
    IF IsNaN(f) \/ f.m = 0 THEN 0
    ELSE IF f.e >= 0 THEN f.m * 2^f.e
    ELSE IF 0 - f.e > 30 THEN 0
    ELSE f.m \div 2^(0 - f.e)

\* f as u8 (saturating)
F32ToU8(f) ==
    IF ~IsNaN(f) /\ f.m # 0 /\ f.e >= 0 THEN 255
    ELSE IF F32Trunc(f) > 255 THEN 255 ELSE F32Trunc(f)

(***************************************************************************)
(* Gradient colours (colors.rs:29-108).                                    *)
(***************************************************************************)
\* lerp: (a as f32 * (1.0 - t) + b as f32 * t) as u8
lerp(a, b, t) ==
    F32ToU8(F32Add(F32MulInt(a, F32Sub(F32One, t)), F32MulInt(b, t)))

\* interpolate_rgb
interpolate_rgb(color1, color2, t) ==
    <<lerp(color1[1], color2[1], t),
      lerp(color1[2], color2[2], t),
      lerp(color1[3], color2[3], t),
      255>>

\* a faulty variant: the horizontal and vertical factors are normalised by
\* the last pixel index
gradient_t_last_pixel(x, y, width, height, gradient_type) ==
    IF gradient_type = "Horizontal"
    THEN F32Div(F32FromInt(x), F32FromInt(width - 1))
    ELSE IF gradient_type = "Vertical"
    THEN F32Div(F32FromInt(y), F32FromInt(height - 1))
    ELSE IF gradient_type = "Diagonal"
    THEN F32Div(F32FromInt(x + y), F32FromInt(width + height))
    ELSE LET dist == F32SqrtQuarter((2 * x - width) * (2 * x - width)
                                    + (2 * y - height) * (2 * y - height))
             max_dist == F32SqrtQuarter(width * width + height * height)
             q == F32Div(dist, max_dist)
         IN IF IsNaN(q) \/ ~F32Le(q, F32One) THEN F32One ELSE q

\* the interpolation factor t of get_gradient_color; in the radial mode
\* dx*dx + dy*dy is the exact quarter of (2x - width)^2 + (2y - height)^2,
\* and f32::min drops a NaN operand
gradient_t(x, y, width, height, gradient_type) ==
    IF gradient_type = "Horizontal"
    THEN F32Div(F32FromInt(x), F32FromInt(width))
    ELSE IF gradient_type = "Vertical"
    THEN F32Div(F32FromInt(y), F32FromInt(height))
    ELSE IF gradient_type = "Diagonal"
    THEN F32Div(F32FromInt(x + y), F32FromInt(width + height))
    ELSE LET dist == F32SqrtQuarter((2 * x - width) * (2 * x - width)
                                    + (2 * y - height) * (2 * y - height))
             max_dist == F32SqrtQuarter(width * width + height * height)
             q == F32Div(dist, max_dist)
         IN IF IsNaN(q) \/ ~F32Le(q, F32One) THEN F32One ELSE q

get_gradient_color(x, y, width, height, a) ==
    interpolate_rgb(a.fg_color, a.gradient_color,
                    gradient_t(x, y, width, height, a.gradient_type))

(***************************************************************************)
(* Step 2: dimensions (generator.rs:45-49, 69).                            *)
(***************************************************************************)
\* a faulty variant: the border is charged per started module (ceiling division)
calc_module_size_ceil(size, border, qr_width) ==
    (size - 2 * border * ((size + qr_width - 1) \div qr_width)) \div qr_width

\* a faulty variant: the border is charged per module rounded to the nearest pixel
calc_module_size_nearest(size, border, qr_width) ==
    (size - 2 * border * ((2 * size + qr_width) \div (2 * qr_width))) \div qr_width

calc_module_size(size, border, qr_width) ==
    (size - 2 * border * (size \div qr_width)) \div qr_width

calc_actual_qr_size(msize, qr_width) == msize * qr_width

\* a faulty variant: the border is added in modules, not in pixels
calc_total_size_border_in_modules(msize, border, qr_width) ==
    calc_actual_qr_size(msize, qr_width) + 2 * border * qr_width

calc_total_size(msize, border, qr_width) ==
    calc_actual_qr_size(msize, qr_width) + 2 * border * msize

calc_offset(border, msize) == border * msize

\* a faulty variant: the border offset is left out
module_px_no_offset(offset, x, msize) == x * msize

\* let px = offset + x as u32 * module_size  (and py likewise)
module_px(offset, x, msize) == offset + x * msize

(***************************************************************************)
(* Images.  An RgbaImage is [width, height, pix]; pix is row-major, pixel  *)
(* (x, y) at index y * width + x + 1.                                      *)
(***************************************************************************)
PixIndex(img, x, y) == y * img.width + x + 1
get_pixel(img, x, y) == img.pix[PixIndex(img, x, y)]

\* image.put_pixel(x, y, color)
put_pixel(img, x, y, color) == [img EXCEPT !.pix[PixIndex(img, x, y)] = color]

RECURSIVE put_pixels(_, _, _, _)
\* image.put_pixel(p[1], p[2], color) for each p of the sequence ws from k on
\* (the CASE guard, which put_pixel always meets, has each image computed
\* before the next write is taken up)
put_pixels(img, ws, color, k) ==
    IF k > Len(ws) THEN img
    ELSE LET next == put_pixel(img, ws[k][1], ws[k][2], color)
         IN CASE next.width = img.width -> put_pixels(next, ws, color, k + 1)

\* create_solid_background
create_solid_background(size, bg_color) ==
    [width |-> size, height |-> size,
     pix |-> [i \in 1..(size * size) |-> Rgba(bg_color, 255)]]


(***************************************************************************)
(* Shape rasterizers (drawing.rs:133-258).  Each returns the draw call it  *)
(* makes: the shape (with the corner radius of a rounded square), the      *)
(* colour and the pixels handed to put_pixel, in the order of the dy/dx    *)
(* loops.                                                                  *)
(***************************************************************************)
\* the (dx, dy) of the k-th iteration of "for dy in 0..size { for dx in 0..size"
LoopDx(k, size) == (k - 1) % size
LoopDy(k, size) == (k - 1) \div size

\* the offsets (dx, dy) of the region
Offsets(size) == (0..(size - 1)) \X (0..(size - 1))

\* the pixels of the size x size region at (x, y) that pass the shape's test
\* fill[dx, dy] and the clip "px < image.width() && py < image.height()"
raster(img, x, y, size, fill) ==
    LET all == [k \in 1..(size * size) |->
                   <<x + LoopDx(k, size), y + LoopDy(k, size)>>]
        keep(p) == /\ fill[<<p[1] - x, p[2] - y>>]
                   /\ p[1] < img.width
                   /\ p[2] < img.height
    IN SelectSeq(all, keep)

DrawCall(shape, radius, color, writes) ==
    [shape |-> shape, radius |-> radius, color |-> color, writes |-> writes]

\* a faulty variant: the last pixel of the region is left out
draw_square_short(img, x, y, size, color) ==
    LET fill == [d \in Offsets(size) |-> d[1] + 1 < size \/ d[2] + 1 < size]
    IN DrawCall("square", 0, color, raster(img, x, y, size, fill))

\* draw_square: every pixel of the region
draw_square(img, x, y, size, color) ==
    LET fill == [d \in Offsets(size) |-> TRUE]
    IN DrawCall("square", 0, color, raster(img, x, y, size, fill))

\* draw_circle: radius = size / 2, center = (x + radius, y + radius),
\* dist = sqrt((px - center_x)^2 + (py - center_y)^2) <= radius,
\* stated on the doubled offsets 2*dx - size, 2*dy - size
circle_fill(dx, dy, size) ==
    (2 * dx - size) * (2 * dx - size) + (2 * dy - size) * (2 * dy - size)
        <= size * size

draw_circle(img, x, y, size, color) ==
    LET fill == [d \in Offsets(size) |-> circle_fill(d[1], d[2], size)]
    IN DrawCall("circle", 0, color, raster(img, x, y, size, fill))

\* the radius of draw_rounded_square; corner_radius is kept in tenths
\*   (size as f32 * app.corner_radius) as u32   or   (size as f32 * 0.2) as u32
F32OfTenths(n) == F32Div(F32FromInt(n), F32FromInt(10))

\* a faulty variant: the stored corner_radius is used whatever the flag says
rounded_radius_flag_ignored(size, a) ==
    F32Trunc(F32MulInt(size, F32OfTenths(a.corner_radius)))

rounded_radius(size, a) ==
    IF a.use_rounded_corners
    THEN F32Trunc(F32MulInt(size, F32OfTenths(a.corner_radius)))
    ELSE F32Trunc(F32MulInt(size, F32OfTenths(2)))

rounded_fill(dx, dy, size, radius) ==
    LET in_corner == \/ (dx < radius /\ dy < radius)
                     \/ (dx >= size - radius /\ dy < radius)
                     \/ (dx < radius /\ dy >= size - radius)
                     \/ (dx >= size - radius /\ dy >= size - radius)
        corner_x == IF dx < radius THEN radius ELSE size - radius
        corner_y == IF dy < radius THEN radius ELSE size - radius
    IN IF in_corner
       THEN (dx - corner_x) * (dx - corner_x) + (dy - corner_y) * (dy - corner_y)
                <= radius * radius
       ELSE TRUE

draw_rounded_square(img, x, y, size, color, a) ==
    LET radius == rounded_radius(size, a)
        fill == [d \in Offsets(size) |-> rounded_fill(d[1], d[2], size, radius)]
    IN DrawCall("rounded_square", radius, color, raster(img, x, y, size, fill))

\* draw_dot: radius = size * 0.35, center = (x + size/2, y + size/2);
\* dist <= radius is 100 * (2*dist)^2 <= 49 * size^2
dot_fill(dx, dy, size) ==
    100 * ((2 * dx - size) * (2 * dx - size) + (2 * dy - size) * (2 * dy - size))
        <= 49 * size * size

draw_dot(img, x, y, size, color) ==
    LET fill == [d \in Offsets(size) |-> dot_fill(d[1], d[2], size)]
    IN DrawCall("dots", 0, color, raster(img, x, y, size, fill))

(***************************************************************************)
(* Eye (finder pattern) styler (drawing.rs:264-370).  Each returns the     *)
(* sequence of draw calls it makes: one, or none.                          *)
(***************************************************************************)
draw_eye_circle(img, px, py, size, color, rel_x, rel_y) ==
    IF (rel_x <= 1 \/ rel_x >= 5 \/ rel_y <= 1 \/ rel_y >= 5)
       /\ ~(rel_x = 3 /\ rel_y = 3)
    THEN <<draw_circle(img, px, py, size, color)>>
    ELSE IF rel_x = 3 /\ rel_y = 3
    THEN <<draw_circle(img, px, py, size, color)>>
    ELSE <<>>

draw_eye_rounded(img, px, py, size, color, a) ==
    <<draw_rounded_square(img, px, py, size, color, a)>>

\* the two fields of QrCodeApp::default() that draw_rounded_square reads
default_app == [use_rounded_corners |-> FALSE, corner_radius |-> 3]

\* a faulty variant: the rounded squares follow the user's corner settings
draw_eye_flower_user_corners(img, px, py, size, color, rel_x, rel_y) ==
    LET is_outer == rel_x = 0 \/ rel_x = 6 \/ rel_y = 0 \/ rel_y = 6
        is_inner == (rel_x >= 2 /\ rel_x <= 4) /\ (rel_y >= 2 /\ rel_y <= 4)
    IN IF is_outer \/ is_inner
       THEN IF (rel_x + rel_y) % 2 = 0
            THEN <<draw_circle(img, px, py, size, color)>>
            ELSE <<draw_rounded_square(img, px, py, size, color, app)>>
       ELSE <<>>

draw_eye_flower(img, px, py, size, color, rel_x, rel_y) ==
    LET is_outer == rel_x = 0 \/ rel_x = 6 \/ rel_y = 0 \/ rel_y = 6
        is_inner == (rel_x >= 2 /\ rel_x <= 4) /\ (rel_y >= 2 /\ rel_y <= 4)
    IN IF is_outer \/ is_inner
       THEN IF (rel_x + rel_y) % 2 = 0
            THEN <<draw_circle(img, px, py, size, color)>>
            ELSE <<draw_rounded_square(img, px, py, size, color, default_app)>>
       ELSE <<>>

Abs(n) == IF n < 0 THEN 0 - n ELSE n

draw_eye_diamond(img, px, py, size, color, rel_x, rel_y) ==
    LET dist == Abs(rel_x - 3) + Abs(rel_y - 3)
    IN IF dist = 3 \/ dist = 1
       THEN <<draw_square(img, px, py, size, color)>>
       ELSE <<>>

(***************************************************************************)
(* Module drawing (drawing.rs:27-118).                                     *)
(***************************************************************************)
\* a faulty variant: the gradient is evaluated at the transposed position
data_module_color_transposed(img, a, px, py) ==
    IF a.use_gradient
    THEN get_gradient_color(py, px, img.width, img.height, a)
    ELSE Rgba(a.fg_color, 255)

\* the colour of a data module
data_module_color(img, a, px, py) ==
    IF a.use_gradient
    THEN get_gradient_color(px, py, img.width, img.height, a)
    ELSE Rgba(a.fg_color, 255)

draw_data_module(img, a, px, py, size) ==
    LET color == data_module_color(img, a, px, py)
    IN IF a.module_style = "Square" THEN <<draw_square(img, px, py, size, color)>>
       ELSE IF a.module_style = "Circle" THEN <<draw_circle(img, px, py, size, color)>>
       ELSE IF a.module_style = "RoundedSquare"
       THEN <<draw_rounded_square(img, px, py, size, color, a)>>
       ELSE <<draw_dot(img, px, py, size, color)>>

\* a faulty variant: the gradient is preferred to the custom eye colour
eye_module_color_gradient_first(img, a, px, py) ==
    IF a.use_gradient
    THEN get_gradient_color(px, py, img.width, img.height, a)
    ELSE IF a.use_custom_eye_color THEN Rgba(a.eye_color, 255)
    ELSE Rgba(a.fg_color, 255)

\* the colour of an eye module
eye_module_color(img, a, px, py) ==
    IF a.use_custom_eye_color THEN Rgba(a.eye_color, 255)
    ELSE IF a.use_gradient
    THEN get_gradient_color(px, py, img.width, img.height, a)
    ELSE Rgba(a.fg_color, 255)

\* x >= *ex && x < ex + 7 && y >= *ey && y < ey + 7
in_eye(x, y, e) == x >= e[1] /\ x < e[1] + 7 /\ y >= e[2] /\ y < e[2] + 7

\* the eye positions that hold (x, y), in the order of the list
eyes_holding(x, y, eye_positions) ==
    LET holds(e) == in_eye(x, y, e) IN SelectSeq(eye_positions, holds)

\* the match on app.eye_style inside the loop of draw_eye_module
eye_style_calls(img, a, px, py, size, color, rel_x, rel_y) ==
    IF a.eye_style = "Standard" THEN <<draw_square(img, px, py, size, color)>>
    ELSE IF a.eye_style = "Circle"
    THEN draw_eye_circle(img, px, py, size, color, rel_x, rel_y)
    ELSE IF a.eye_style = "RoundedSquare"
    THEN draw_eye_rounded(img, px, py, size, color, a)
    ELSE IF a.eye_style = "Flower"
    THEN draw_eye_flower(img, px, py, size, color, rel_x, rel_y)
    ELSE draw_eye_diamond(img, px, py, size, color, rel_x, rel_y)

\* draw_eye_module: the loop over eye_positions draws for the first position
\* that holds (x, y) and breaks
draw_eye_module(img, a, x, y, px, py, size, eye_positions) ==
    LET color == eye_module_color(img, a, px, py)
        found == eyes_holding(x, y, eye_positions)
    IN IF found = <<>> THEN <<>>
       ELSE eye_style_calls(img, a, px, py, size, color,
                            x - found[1][1], y - found[1][2])

(***************************************************************************)
(* generate_qr_image, steps 4 and 5 (generator.rs:60-100).                 *)
(***************************************************************************)
\* a faulty variant: the third origin repeats the first
eye_positions_repeated(qr_width) ==
    <<<<0, 0>>, <<qr_width - 7, 0>>, <<0, 0>>>>

\* let eye_positions = vec![(0, 0), (qr_width - 7, 0), (0, qr_width - 7)]
eye_positions_of(qr_width) ==
    <<<<0, 0>>, <<qr_width - 7, 0>>, <<0, qr_width - 7>>>>

\* let is_eye = eye_positions.iter().any(...)
is_eye(x, y, eye_positions) ==
    \E i \in 1..Len(eye_positions) : in_eye(x, y, eye_positions[i])

\* a faulty variant: the test matches Color::Light
is_dark_inverted(c, x, y) == ~to_colors(c, x, y)

\* let is_dark = matches!(matrix[y * qr_width + x], qrcode::Color::Dark)
is_dark(c, x, y) == to_colors(c, x, y)

\* the body of "for x in 0..qr_width" for the cell (x, y): what was decided
\* (dark, the routine called, the number of finder blocks that hold the cell,
\* the position relative to the first of them) and the draw calls made
draw_cell(img, a, c, x, y, msize) ==
    LET eyes == eye_positions_of(c.width)
        offset == calc_offset(a.border, msize)
        px == module_px(offset, x, msize)
        py == module_px(offset, y, msize)
        dark == is_dark(c, x, y)
        eye == is_eye(x, y, eyes)
        found == eyes_holding(x, y, eyes)
    IN [x |-> x, y |-> y, px |-> px, py |-> py, dark |-> dark,
        routine |-> IF ~dark THEN "none" ELSE IF eye THEN "eye" ELSE "data",
        blocks |-> Len(found),
        rel |-> IF found = <<>> THEN <<0 - 1, 0 - 1>>
                ELSE <<x - found[1][1], y - found[1][2]>>,
        calls |-> IF ~dark THEN <<>>
                  ELSE IF eye
                  THEN draw_eye_module(img, a, x, y, px, py, msize, eyes)
                  ELSE draw_data_module(img, a, px, py, msize)]

\* one iteration of "for y in 0..qr_width": the cells of row y, left to right
draw_row(img, a, c, y, msize) ==
    [k \in 1..c.width |-> draw_cell(img, a, c, k - 1, y, msize)]

RECURSIVE apply_calls(_, _, _)
\* the image after the draw calls k.. of a cell
apply_calls(img, calls, k) ==
    IF k > Len(calls) THEN img
    ELSE LET next == put_pixels(img, calls[k].writes, calls[k].color, 1)
         IN CASE next.width = img.width -> apply_calls(next, calls, k + 1)

RECURSIVE apply_row(_, _, _)
\* the image after the draw calls of the cells k.. of a row
apply_row(img, cells, k) ==
    IF k > Len(cells) THEN img
    ELSE LET next == apply_calls(img, cells[k].calls, 1)
         IN CASE next.width = img.width -> apply_row(next, cells, k + 1)

(***************************************************************************)
(* Images from files.  A DynamicImage (logo_image, bg_image) is modelled   *)
(* as an image of one colour: [present, color]; resize_exact of such an    *)
(* image is an image of that colour.  imageops::overlay blends every pixel *)
(* of the top image that falls inside the bottom one (Rgba::blend of the   *)
(* image crate: source-over in f32, channels scaled to 0..1).              *)
(***************************************************************************)
NoImage == [present |-> FALSE, color |-> <<0, 0, 0, 0>>]
SomeImage(color) == [present |-> TRUE, color |-> color]

F32Unit(c) == F32Div(F32FromInt(c), F32FromInt(255))

\* Rgba::blend: bg.blend(&fg)
blend(bg, fg) ==
    IF fg[4] = 0 THEN bg
    ELSE IF fg[4] = 255 THEN fg
    ELSE LET bg_a == F32Unit(bg[4])
             fg_a == F32Unit(fg[4])
             alpha_final == F32Sub(F32Add(bg_a, fg_a), F32Mul(bg_a, fg_a))
             out(i) == F32Div(
                         F32Add(F32Mul(F32Unit(fg[i]), fg_a),
                                F32Mul(F32Mul(F32Unit(bg[i]), bg_a),
                                       F32Sub(F32One, fg_a))),
                         alpha_final)
             cast(f) == F32ToU8(F32Mul(F32FromInt(255), f))
         IN IF alpha_final.m = 0 THEN bg
            ELSE <<cast(out(1)), cast(out(2)), cast(out(3)), cast(alpha_final)>>

\* an f32 option of the configuration is kept in hundredths (corner_radius in
\* tenths); this is the f32 the code holds
F32OfHundredths(h) == F32Div(F32FromInt(h), F32FromInt(100))

\* (pixel[3] as f32 * opacity) as u8
scale_alpha(alpha, opacity) ==
    F32ToU8(F32MulInt(alpha, F32OfHundredths(opacity)))

\* create_background_with_image (generator.rs:143-168)
create_background_with_image(bg_img, size, a) ==
    LET resized == bg_img.color
        faded == IF a.bg_image_opacity < 100
                 THEN [resized EXCEPT ![4] = scale_alpha(resized[4],
                                                         a.bg_image_opacity)]
                 ELSE resized
        blended == blend(Rgba(a.bg_color, 255), faded)
    IN [width |-> size, height |-> size,
        pix |-> [i \in 1..(size * size) |-> blended]]

\* a faulty variant: the buffer returned by the previous call is drawn on again
create_base_image_reused(a, size) ==
    IF earlier.made /\ earlier.image.width = size THEN earlier.image
    ELSE IF a.bg_image.present
    THEN create_background_with_image(a.bg_image, size, a)
    ELSE create_solid_background(size, a.bg_color)

\* step 3 of generate_qr_image (generator.rs:51-58)
create_base_image(a, size) ==
    IF a.bg_image.present
    THEN create_background_with_image(a.bg_image, size, a)
    ELSE create_solid_background(size, a.bg_color)

\* apply_logo_overlay (images.rs:32-76): the logo size
logo_px_size(qr_width, msize, logo_size_ratio) ==
    F32Trunc(F32MulInt(qr_width * msize, F32OfHundredths(logo_size_ratio)))

\* apply_logo_overlay: the error returned, or "" for Ok(())
logo_error(qr_width, msize, logo_size_ratio) ==
    LET qr_size == qr_width * msize
        logo_size == logo_px_size(qr_width, msize, logo_size_ratio)
    IN IF logo_size = 0 THEN "Logo size too small to render"
       ELSE IF logo_size > qr_size THEN "Logo size exceeds QR code dimensions"
       ELSE ""

\* a faulty variant: the border offset is left out
logo_center_no_offset(qr_width, msize, offset, logo_size_ratio) ==
    (qr_width * msize - logo_px_size(qr_width, msize, logo_size_ratio)) \div 2

\* apply_logo_overlay: let center_x = offset + (qr_size - logo_size) / 2
logo_center(qr_width, msize, offset, logo_size_ratio) ==
    offset + (qr_width * msize
              - logo_px_size(qr_width, msize, logo_size_ratio)) \div 2

\* apply_logo_overlay: the image after imageops::overlay of the resized logo
apply_logo_overlay(img, logo, qr_width, msize, offset, logo_size_ratio) ==
    LET logo_size == logo_px_size(qr_width, msize, logo_size_ratio)
        c == logo_center(qr_width, msize, offset, logo_size_ratio)
        under(i) == LET x == (i - 1) % img.width
                        y == (i - 1) \div img.width
                    IN x >= c /\ x < c + logo_size /\ y >= c /\ y < c + logo_size
    IN [img EXCEPT !.pix = [i \in DOMAIN img.pix |->
                               IF under(i) THEN blend(img.pix[i], logo.color)
                               ELSE img.pix[i]]]

\* apply_qr_opacity (generator.rs:178-185)
apply_qr_opacity(img, opacity, bg_color) ==
    [img EXCEPT !.pix = [i \in DOMAIN img.pix |->
        LET pixel == img.pix[i]
        IN IF pixel[1] # bg_color[1] \/ pixel[2] # bg_color[2]
              \/ pixel[3] # bg_color[3]
           THEN [pixel EXCEPT ![4] = scale_alpha(pixel[4], opacity)]
           ELSE pixel]]

(***************************************************************************)
(* Configurations.                                                         *)
(***************************************************************************)
ModuleStyles == {"Square", "Circle", "RoundedSquare", "Dots"}
EyeStyles == {"Standard", "Circle", "RoundedSquare", "Flower", "Diamond"}
GradientTypes == {"Horizontal", "Vertical", "Diagonal", "Radial"}

\* QrCodeApp::default() (app.rs:116-163): the fields generate_qr_image reads.
\* corner_radius is in tenths; logo_size and the opacities are in hundredths.
DefaultApp ==
    [size |-> 512, border |-> 2,
     fg_color |-> DefaultFg, bg_color |-> DefaultBg,
     use_gradient |-> FALSE, gradient_type |-> "Horizontal",
     gradient_color |-> DefaultGradientColor,
     module_style |-> "Square",
     use_rounded_corners |-> FALSE, corner_radius |-> 3,
     eye_style |-> "Standard",
     use_custom_eye_color |-> FALSE, eye_color |-> DefaultEyeColor,
     logo_image |-> NoImage, logo_size |-> 20,
     bg_image |-> NoImage, bg_image_opacity |-> 30,
     qr_opacity |-> 100]

\* the sizes and borders of the rendered requests (presets may hold any u32)
RenderSizes == {k * WidthOfVersion(1) - 1 : k \in 1..MaxSizeSteps}
RenderBorders == 0..MaxRenderBorder

\* the corner settings: use_rounded_corners and corner_radius (in tenths)
CornerSettings == {<<FALSE, 3>>, <<TRUE, 3>>, <<TRUE, 10>>}

\* draw_rounded_square is reached from the RoundedSquare module style and from
\* the RoundedSquare and Flower eye styles
ReadsCorners(ms, es) ==
    ms = "RoundedSquare" \/ es = "RoundedSquare" \/ es = "Flower"

\* the settings read by the shape rasterizers and the eye styler: every
\* module style and every eye style (the two are read by separate routines,
\* so one of them is the default), with every corner setting where a rounded
\* square is drawn
ShapeConfigs ==
    {[DefaultApp EXCEPT !.module_style = ms, !.eye_style = es,
                        !.use_rounded_corners = r[1], !.corner_radius = r[2]] :
        <<ms, es, r>> \in
            {t \in ModuleStyles \X EyeStyles \X CornerSettings :
                /\ t[1] = "Square" \/ t[2] = "Standard"
                /\ ReadsCorners(t[1], t[2]) \/ t[3] = <<FALSE, 3>>}}

\* the settings read by the colour selection; the Night pair is rendered
\* without a gradient
ColourConfigs ==
    {[DefaultApp EXCEPT !.use_gradient = g[1], !.gradient_type = g[2],
                        !.use_custom_eye_color = ce,
                        !.fg_color = c[1], !.bg_color = c[2]] :
        <<g, ce, c>> \in
            {t \in ({<<FALSE, "Horizontal">>} \cup ({TRUE} \X GradientTypes))
                      \X BOOLEAN
                      \X {<<DefaultFg, DefaultBg>>, <<NightFg, NightBg>>} :
                t[3] = <<DefaultFg, DefaultBg>> \/ ~t[1][1]}}

LogoImages == {NoImage, SomeImage(<<200, 30, 30, 255>>)}
BgImages == {NoImage, SomeImage(<<40, 90, 160, 255>>)}

\* the settings read by the base canvas, the logo overlay and the opacity
ImageConfigs ==
    {[DefaultApp EXCEPT !.logo_image = li, !.bg_image = bi[1],
                        !.bg_image_opacity = bi[2], !.qr_opacity = qo] :
        li \in LogoImages,
        bi \in {t \in BgImages \X {30, 100} : t[1].present \/ t[2] = 30},
        qo \in {50, 100}}

\* a background image of the background colour itself, partly transparent
MatchingBgConfigs ==
    {[DefaultApp EXCEPT !.bg_image = SomeImage(Rgba(DefaultBg, 255)),
                        !.bg_image_opacity = 52, !.qr_opacity = qo] :
        qo \in {50, 100}}

RenderConfigs ==
    {[a EXCEPT !.size = s, !.border = b] :
        a \in ShapeConfigs \cup ColourConfigs \cup ImageConfigs
                 \cup MatchingBgConfigs,
        s \in RenderSizes, b \in RenderBorders}

\* the encoder's answers: an encoding failure, or a symbol
EncodeFailure == [ok |-> FALSE, width |-> 0, seed |-> 0]
Symbol(v) == [ok |-> TRUE, width |-> WidthOfVersion(v), seed |-> v % 3]
RenderCodes == {EncodeFailure} \cup {Symbol(v) : v \in 1..MaxRenderVersion}

(***************************************************************************)
(* generate_qr_image as a state machine.                                   *)
(***************************************************************************)
EmptyImage == [width |-> 0, height |-> 0, pix |-> <<>>]
NoResult == [returned |-> FALSE, ok |-> FALSE, err |-> ""]
Ok == [returned |-> TRUE, ok |-> TRUE, err |-> ""]
Err(msg) == [returned |-> TRUE, ok |-> FALSE, err |-> msg]

\* nothing applied on its own, no previous call, no files
NotApplied == [fn |-> "none"]
NoCall == [made |-> FALSE]
NoFiles == [preset |-> [saved |-> FALSE], readable |-> {}]

\* QrCodeApp::default() (app.rs:116-163): the fields generate_qr_image does
\* not read.  A status message is the tuple of its format string's parts.
NoPath == [set |-> FALSE, name |-> ""]
SomePath(name) == [set |-> TRUE, name |-> name]
NoTexture == [loaded |-> FALSE, size |-> <<0, 0>>, pixels |-> <<>>]
DefaultUi ==
    [qr_text |-> "https://oliverbonhamcarter.com",
     logo_path |-> NoPath,
     bg_image_path |-> NoPath,
     selected_tab |-> "Basic",
     preview_texture |-> NoTexture,
     status_message |-> <<"Ready to generate QR code">>,
     first_frame |-> TRUE]

\* the other fields of an application whose images were selected from files
UiOf(a) ==
    [DefaultUi EXCEPT
        !.logo_path = IF a.logo_image.present THEN SomePath("logo.png")
                      ELSE NoPath,
        !.bg_image_path = IF a.bg_image.present THEN SomePath("background.png")
                          ELSE NoPath]

InitOutside ==
    /\ applied = NotApplied
    /\ earlier = NoCall
    /\ disk = NoFiles
    /\ ui = UiOf(app)
    /\ frames = 0

InitCall ==
    /\ InitOutside
    /\ pc = "call"
    /\ module_size = 0
    /\ total_size = 0
    /\ image = EmptyImage
    /\ row = 0
    /\ row_log = <<>>
    /\ result = NoResult

Init ==
    /\ app \in RenderConfigs
    /\ code \in RenderCodes
    /\ InitCall

\* Step 1: the encoder answers; its error is returned
GenerateMatrix ==
    /\ pc = "call"
    /\ IF code.ok
       THEN /\ pc' = "dimensions"
            /\ UNCHANGED result
       ELSE /\ pc' = "returned"
            /\ result' = Err("Failed to create QR code")
    /\ UNCHANGED <<app, code, module_size, total_size, image, row, row_log, outside>>

\* Step 2: module_size, actual_qr_size, total_size
CalculateDimensions ==
    /\ pc = "dimensions"
    /\ module_size' = calc_module_size(app.size, app.border, code.width)
    /\ total_size' = calc_total_size(module_size', app.border, code.width)
    /\ pc' = "base"
    /\ UNCHANGED <<app, code, image, row, row_log, result, outside>>

\* Step 3: the base canvas
CreateBaseImage ==
    /\ pc = "base"
    /\ image' = create_base_image(app, total_size)
    /\ row' = 0
    /\ pc' = "modules"
    /\ UNCHANGED <<app, code, module_size, total_size, row_log, result, outside>>

\* Step 5: one iteration of "for y in 0..qr_width"
DrawRow ==
    /\ pc = "modules"
    /\ row < code.width
    /\ row_log' = draw_row(image, app, code, row, module_size)
    /\ image' = apply_row(image, row_log', 1)
    /\ row' = row + 1
    /\ pc' = IF row + 1 = code.width THEN "logo" ELSE "modules"
    /\ UNCHANGED <<app, code, module_size, total_size, result, outside>>

\* Step 6: the logo overlay; its error is returned and the image dropped
ApplyLogo ==
    /\ pc = "logo"
    /\ LET offset == calc_offset(app.border, module_size)
           err == logo_error(code.width, module_size, app.logo_size)
       IN IF ~app.logo_image.present
          THEN /\ pc' = "opacity"
               /\ UNCHANGED <<image, result>>
          ELSE IF err # ""
          THEN /\ pc' = "returned"
               /\ result' = Err(err)
               /\ image' = EmptyImage
          ELSE /\ pc' = "opacity"
               /\ image' = apply_logo_overlay(image, app.logo_image, code.width,
                                              module_size, offset, app.logo_size)
               /\ UNCHANGED result
    /\ UNCHANGED <<app, code, module_size, total_size, row, row_log, outside>>

\* Step 7 and Ok(image)
ApplyOpacityAndReturn ==
    /\ pc = "opacity"
    /\ image' = IF app.qr_opacity < 100
                THEN apply_qr_opacity(image, app.qr_opacity, app.bg_color)
                ELSE image
    /\ result' = Ok
    /\ pc' = "returned"
    /\ UNCHANGED <<app, code, module_size, total_size, row, row_log, outside>>

Next ==
    \/ GenerateMatrix
    \/ CalculateDimensions
    \/ CreateBaseImage
    \/ DrawRow
    \/ ApplyLogo
    \/ ApplyOpacityAndReturn

Spec == Init /\ [][Next]_vars

(***************************************************************************)
(* Steps 1 and 2 alone, over every size and border the sliders allow       *)
(* (ui/tabs.rs:86, 94) and every QR version.                               *)
(***************************************************************************)
SliderSizes == MinSizePx..MaxSizePx
SliderBorders == 0..MaxBorderModules
AllSymbols == {Symbol(v) : v \in 1..MaxQrVersion}

InitGeom ==
    /\ app \in {[DefaultApp EXCEPT !.size = s, !.border = b] :
                    s \in SliderSizes, b \in SliderBorders}
    /\ code \in {EncodeFailure} \cup AllSymbols
    /\ InitCall

NextGeom ==
    \/ GenerateMatrix
    \/ CalculateDimensions

SpecGeom == InitGeom /\ [][NextGeom]_vars

(***************************************************************************)
(* draw_eye_module and draw_data_module alone: one dark cell of the        *)
(* top-left finder block's 7x7 cells, drawn at every module size on a      *)
(* canvas of 7x7 modules without border.                                   *)
(***************************************************************************)
BlockCells == (0..6) \X (0..6)
DiagonalCells == {<<k, k>> : k \in 0..6}

\* what draw_cell logs, for a cell handed to one of the two routines
\* (draw_data_module is handed no cell coordinates and searches no block)
module_cell(x, y, msize, routine, eyes, calls) ==
    LET found == IF routine = "eye" THEN eyes_holding(x, y, eyes) ELSE <<>>
    IN [x |-> x, y |-> y,
        px |-> module_px(0, x, msize), py |-> module_px(0, y, msize),
        dark |-> TRUE, routine |-> routine, blocks |-> Len(found),
        rel |-> IF found = <<>> THEN <<0 - 1, 0 - 1>>
                ELSE <<x - found[1][1], y - found[1][2]>>,
        calls |-> calls]

\* the corner settings of the single-module drawings: the flag on and off,
\* with corner_radius 0.0, 0.3, 0.5, 0.7 and 1.0
ModuleCornerSettings == BOOLEAN \X {0, 3, 5, 7, 10}

ModuleConfigs ==
    {[DefaultApp EXCEPT !.border = 0, !.module_style = ms, !.eye_style = es,
                        !.use_rounded_corners = r[1], !.corner_radius = r[2]] :
        <<ms, es, r>> \in
            {t \in ModuleStyles \X EyeStyles \X ModuleCornerSettings :
                /\ t[1] = "Square" \/ t[2] = "Standard"
                /\ ReadsCorners(t[1], t[2]) \/ t[3] = <<FALSE, 3>>}}

InitShapes ==
    /\ app \in ModuleConfigs
    /\ InitOutside
    /\ code = Symbol(1)
    /\ module_size \in 1..MaxModuleSize
    /\ total_size = 7 * module_size
    /\ image = create_base_image(app, total_size)
    /\ pc = "module"
    /\ row = 0
    /\ row_log = <<>>
    /\ result = NoResult

DrawEyeModule ==
    /\ pc = "module"
    /\ \E c \in BlockCells :
          LET eyes == eye_positions_of(code.width)
              px == module_px(0, c[1], module_size)
              py == module_px(0, c[2], module_size)
          IN row_log' = <<module_cell(c[1], c[2], module_size, "eye", eyes,
                             draw_eye_module(image, app, c[1], c[2], px, py,
                                             module_size, eyes))>>
    /\ image' = apply_row(image, row_log', 1)
    /\ pc' = "drawn"
    /\ UNCHANGED <<app, code, module_size, total_size, row, result, outside>>

DrawDataModule ==
    /\ pc = "module"
    /\ \E c \in DiagonalCells :
          LET eyes == eye_positions_of(code.width)
              px == module_px(0, c[1], module_size)
              py == module_px(0, c[2], module_size)
          IN row_log' = <<module_cell(c[1], c[2], module_size, "data", eyes,
                             draw_data_module(image, app, px, py, module_size))>>
    /\ image' = apply_row(image, row_log', 1)
    /\ pc' = "drawn"
    /\ UNCHANGED <<app, code, module_size, total_size, row, result, outside>>

NextShapes ==
    \/ DrawEyeModule
    \/ DrawDataModule

SpecShapes == InitShapes /\ [][NextShapes]_vars

(***************************************************************************)
(* Properties.                                                             *)
(***************************************************************************)
\* module_pixel_size as the specification writes it
StatedModulePixelSize ==
    (app.size - 2 * app.border * (app.size \div code.width)) \div code.width

\* canvas_size as the specification writes it
StatedCanvasSize == StatedModulePixelSize * (code.width + 2 * app.border)

\* the draw calls logged for the cells of the last row drawn
LoggedCalls ==
    UNION {{<<k, j>> : j \in 1..Len(row_log[k].calls)} : k \in 1..Len(row_log)}

\* the pixels a draw call wrote
Written(call) == {call.writes[n] : n \in 1..Len(call.writes)}

SliderRanges ==
    /\ app.size \in MinSizePx..MaxSizePx
    /\ app.border \in 0..MaxBorderModules
    /\ code.width \in 21..177
    /\ code.width % 2 = 1

\* C1: whenever the stated module_pixel_size is 0, generate_qr_image returns
\* an error and no pixel buffer, with or without a logo.
C1_ZeroModuleSizeIsRejected ==
    (pc = "returned" /\ code.ok /\ StatedModulePixelSize = 0)
        => (~result.ok /\ image = EmptyImage)

\* C2: for every size in [128, 2048], border in [0, 10] and odd module count
\* in [21, 177] the computed module_pixel_size is at least 1.
C2_ModuleSizePositiveInSliderRanges ==
    (pc = "base" /\ SliderRanges) => module_size >= 1

\* C2, amended: in those ranges the computed module_pixel_size is at least 1
\* whenever the size is at least (2 * border + 1) * module_count.
C2_ModuleSizePositiveWhenLargeEnough ==
    (pc = "base" /\ SliderRanges
        /\ app.size >= (2 * app.border + 1) * code.width)
        => module_size >= 1

C2_Witness ==
    /\ pc = "base"
    /\ SliderRanges
    /\ app.border = MaxBorderModules
    /\ app.size = (2 * app.border + 1) * code.width
    /\ module_size = 1

\* C3: every returned buffer is square, width = height = canvas_size =
\* module_pixel_size * (module_count + 2 * border); canvas_size is a multiple
\* of module_pixel_size and, for border in [0, 10] and module_count >= 21,
\* does not exceed the requested size.
C3_ReturnedBufferIsTheCanvas ==
    (pc = "returned" /\ result.ok) =>
        /\ image.width = StatedCanvasSize
        /\ image.height = StatedCanvasSize
        /\ Len(image.pix) = StatedCanvasSize * StatedCanvasSize
        /\ \E k \in 0..StatedCanvasSize :
              StatedCanvasSize = k * StatedModulePixelSize
        /\ (app.border \in 0..10 /\ code.width >= 21)
              => StatedCanvasSize <= app.size

C3_Witness ==
    /\ pc = "returned"
    /\ result.ok
    /\ app.border >= 1
    /\ image.width >= 2 * (code.width + 2)
    /\ image.width < app.size

\* C4: after the module loop, before the logo overlay and the opacity step,
\* every pixel of a light module's square and of the border zone equals the
\* pixel of the base canvas.
C4_LightAndBorderPixelsKeepTheBase ==
    pc = "logo" =>
        LET m == module_size
            offset == app.border * m
            base == create_base_image(app, total_size)
            inside(v) == v >= offset /\ v < offset + code.width * m
            light(x, y) == ~to_colors(code, (x - offset) \div m, (y - offset) \div m)
        IN \A x, y \in 0..(image.width - 1) :
              (~inside(x) \/ ~inside(y) \/ light(x, y))
                  => get_pixel(image, x, y) = get_pixel(base, x, y)

C4_Witness ==
    /\ pc = "logo"
    /\ app.border >= 1
    /\ module_size >= 2
    /\ app.bg_image.present
    /\ \E i \in DOMAIN image.pix :
          image.pix[i] # create_base_image(app, total_size).pix[i]

\* C5: every pixel written for a dark module lies inside the module's own
\* square [offset + col*m, offset + col*m + m) x [offset + row*m, ... + m),
\* offset = border * m, and that square lies inside the canvas.
C5_WritesStayInTheModuleSquare ==
    \A k \in 1..Len(row_log) :
        LET cell == row_log[k]
            m == module_size
            left == app.border * m + cell.x * m
            top == app.border * m + cell.y * m
        IN /\ cell.dark => (left + m <= image.width /\ top + m <= image.height)
           /\ \A j \in 1..Len(cell.calls) :
                 \A w \in Written(cell.calls[j]) :
                    /\ w[1] >= left /\ w[1] < left + m
                    /\ w[2] >= top /\ w[2] < top + m

C5_Witness ==
    /\ app.border >= 1
    /\ module_size >= 2
    /\ app.module_style = "Circle"
    /\ \E k1, k2 \in 1..Len(row_log) :
          /\ row_log[k1].routine = "eye" /\ row_log[k2].routine = "data"
          /\ Written(row_log[k1].calls[1]) # {}
          /\ Written(row_log[k2].calls[1]) # {}

\* C6: each dark cell is drawn by exactly one routine, draw_eye_module if it
\* lies in one of the three 7x7 blocks at (0,0), (count-7,0), (0,count-7) and
\* draw_data_module otherwise; exactly one block holds an eye cell, its
\* relative position is in [0,6] x [0,6], and the cell is drawn once.
C6_EachDarkCellHasOneRoutine ==
    \A k \in 1..Len(row_log) :
        LET cell == row_log[k]
            n == code.width
            origins == {<<0, 0>>, <<n - 7, 0>>, <<0, n - 7>>}
            holding == {o \in origins :
                           /\ cell.x \in o[1]..(o[1] + 6)
                           /\ cell.y \in o[2]..(o[2] + 6)}
        IN /\ Cardinality(holding) <= 1
           /\ ~cell.dark => (cell.routine = "none" /\ cell.calls = <<>>)
           /\ cell.dark =>
                 /\ cell.routine = IF holding # {} THEN "eye" ELSE "data"
                 /\ Len(cell.calls) <= 1
                 /\ cell.routine = "data" => Len(cell.calls) = 1
                 /\ cell.routine = "eye" =>
                       /\ cell.blocks = 1
                       /\ \A o \in holding :
                             cell.rel = <<cell.x - o[1], cell.y - o[2]>>
                       /\ cell.rel \in (0..6) \X (0..6)
                       /\ app.eye_style = "Standard" => Len(cell.calls) = 1

C6_Witness ==
    \E k1, k2, k3 \in 1..Len(row_log) :
        /\ row_log[k1].routine = "eye" /\ row_log[k1].x >= code.width - 7
        /\ row_log[k2].routine = "data" /\ Len(row_log[k2].calls) = 1
        /\ row_log[k3].routine = "eye" /\ row_log[k3].x <= 6
        /\ Len(row_log[k3].calls) = 1

\* C7: an eye module has the custom eye colour if use_custom_eye_color, else
\* the gradient colour if use_gradient, else the foreground colour; a data
\* module has the gradient colour if use_gradient, else the foreground
\* colour, whatever the custom eye colour settings; both have alpha 255.
C7_ModuleColours ==
    \A c \in LoggedCalls :
        LET cell == row_log[c[1]]
            color == cell.calls[c[2]].color
            gradient == get_gradient_color(cell.px, cell.py,
                                           image.width, image.height, app)
            foreground == <<app.fg_color[1], app.fg_color[2], app.fg_color[3], 255>>
            custom == <<app.eye_color[1], app.eye_color[2], app.eye_color[3], 255>>
        IN /\ color[4] = 255
           /\ cell.routine = "eye" =>
                 color = IF app.use_custom_eye_color THEN custom
                         ELSE IF app.use_gradient THEN gradient
                         ELSE foreground
           /\ cell.routine = "data" =>
                 color = IF app.use_gradient THEN gradient ELSE foreground

C7_Witness ==
    /\ app.use_custom_eye_color
    /\ app.use_gradient
    /\ \E c1, c2 \in LoggedCalls :
          /\ row_log[c1[1]].routine = "eye"
          /\ row_log[c2[1]].routine = "data"
          /\ row_log[c1[1]].calls[1].color = Rgba(DefaultEyeColor, 255)
          /\ row_log[c2[1]].calls[1].color # Rgba(DefaultEyeColor, 255)
          /\ row_log[c2[1]].calls[1].color # Rgba(app.fg_color, 255)

\* C8: for every module size S >= 1 the pixels filled by draw_circle are
\* symmetric about both axes of the module: (dx, dy) is filled iff
\* (S-1-dx, dy) and (dx, S-1-dy) are filled.
C8_CircleIsSymmetric ==
    \A c \in LoggedCalls :
        LET cell == row_log[c[1]]
            call == cell.calls[c[2]]
            S == module_size
            filled(dx, dy) == <<cell.px + dx, cell.py + dy>> \in Written(call)
        IN call.shape = "circle" =>
              \A dx, dy \in 0..(S - 1) :
                  filled(dx, dy) <=> (filled(S - 1 - dx, dy) /\ filled(dx, S - 1 - dy))

\* C9: at every relative position (rx, ry) of a dark cell of a finder block
\* the eye styler paints something iff: standard, rounded square - always;
\* circle - rx <= 1 or rx >= 5 or ry <= 1 or ry >= 5 or (rx, ry) = (3, 3);
\* flower - rx in {0, 6} or ry in {0, 6} or rx and ry both in 2..4;
\* diamond - |rx - 3| + |ry - 3| is 1 or 3.
StatedEyePaint(style, rx, ry) ==
    LET d == (IF rx < 3 THEN 3 - rx ELSE rx - 3) + (IF ry < 3 THEN 3 - ry ELSE ry - 3)
    IN CASE style \in {"Standard", "RoundedSquare"} -> TRUE
         [] style = "Circle" ->
              rx <= 1 \/ rx >= 5 \/ ry <= 1 \/ ry >= 5 \/ (rx = 3 /\ ry = 3)
         [] style = "Flower" ->
              rx \in {0, 6} \/ ry \in {0, 6} \/ (rx \in 2..4 /\ ry \in 2..4)
         [] style = "Diamond" -> d = 1 \/ d = 3

C9_EyeStylerPaintsStatedPositions ==
    \A k \in 1..Len(row_log) :
        LET cell == row_log[k]
            painted == \E j \in 1..Len(cell.calls) : Written(cell.calls[j]) # {}
        IN (cell.routine = "eye" /\ FinderDark(cell.rel[1], cell.rel[2]))
              => (painted <=> StatedEyePaint(app.eye_style, cell.rel[1], cell.rel[2]))

\* C10: in the flower eye style a painted position gets the circle shape
\* when rx + ry is even and the rounded-square shape when it is odd, and the
\* rounded square has corner radius floor(0.2 * S) for every setting of
\* use_rounded_corners and corner_radius.
C10_FlowerShapesAndRadius ==
    \A c \in LoggedCalls :
        LET cell == row_log[c[1]]
            call == cell.calls[c[2]]
        IN (cell.routine = "eye" /\ app.eye_style = "Flower") =>
              IF (cell.rel[1] + cell.rel[2]) % 2 = 0
              THEN call.shape = "circle"
              ELSE /\ call.shape = "rounded_square"
                   /\ call.radius = module_size \div 5
                   /\ Written(call) =
                         {<<cell.px + dx, cell.py + dy>> :
                             <<dx, dy>> \in
                                 {d \in Offsets(module_size) :
                                     rounded_fill(d[1], d[2], module_size,
                                                  module_size \div 5)}}

C10_Witness ==
    /\ app.eye_style = "Flower"
    /\ app.use_rounded_corners
    /\ app.corner_radius = 10
    /\ module_size >= 5
    /\ \E c \in LoggedCalls :
          /\ row_log[c[1]].routine = "eye"
          /\ row_log[c[1]].rel = <<0, 1>>
          /\ row_log[c[1]].calls[1].shape = "rounded_square"
          /\ row_log[c[1]].calls[1].radius = 1
          /\ Cardinality(Written(row_log[c[1]].calls[1]))
                < module_size * module_size

Idle ==
    /\ code = Symbol(1)
    /\ pc = "idle"
    /\ module_size = 0
    /\ total_size = 0
    /\ image = EmptyImage
    /\ row = 0
    /\ row_log = <<>>
    /\ result = NoResult

\* canvas sides: the small ones and the two ends of the size slider
GradientSides == (1..MaxGradientSide) \cup {MinSizePx, MaxSizePx}

\* positions 0..side: near both ends and in the middle
GradientPositions(side) ==
    {p \in 0..side : p <= MaxGradientSide \/ p >= side - 1
                     \/ p = side \div 2 \/ p = (side + 1) \div 2}

GradientCalls ==
    UNION {{[fn |-> "get_gradient_color", x |-> x, y |-> y,
             width |-> wh[1], height |-> wh[2],
             returned |-> FALSE, t |-> F32Zero, value |-> <<>>] :
               x \in GradientPositions(wh[1]), y \in GradientPositions(wh[2])} :
           wh \in GradientSides \X GradientSides}

\* interpolation factors: the f32 quotients n / d
LerpFactors ==
    {F32Div(F32FromInt(n), F32FromInt(d)) :
        <<n, d>> \in {q \in (0..MaxLerpDenominator) \X (1..MaxLerpDenominator) :
                         q[1] <= q[2]}}

\* channel pairs: every start value, with the end values 0, 17, ... 255 and
\* the start value itself
LerpPairs ==
    {ab \in (0..255) \X (0..255) : ab[2] % 17 = 0 \/ ab[2] = ab[1]}

LerpCalls ==
    {[fn |-> "lerp", a |-> ab[1], b |-> ab[2], t |-> t,
      returned |-> FALSE, value |-> 0] :
        ab \in LerpPairs, t \in LerpFactors}

InterpolateColours == {DefaultFg, DefaultBg, DefaultGradientColor, NightBg}

InterpolateCalls ==
    {[fn |-> "interpolate_rgb", color1 |-> c1, color2 |-> c2, t |-> t,
      returned |-> FALSE, value |-> <<>>] :
        c1 \in InterpolateColours, c2 \in InterpolateColours, t \in LerpFactors}

InitColours ==
    /\ Idle
    /\ earlier = NoCall
    /\ disk = NoFiles
    /\ \/ /\ applied \in GradientCalls
          /\ app \in {[DefaultApp EXCEPT !.use_gradient = TRUE,
                                         !.gradient_type = g] : g \in GradientTypes}
       \/ /\ applied \in LerpCalls \cup InterpolateCalls
          /\ app = DefaultApp
    /\ ui = UiOf(app)
    /\ frames = 0

ApplyGetGradientColor ==
    /\ applied.fn = "get_gradient_color"
    /\ ~applied.returned
    /\ applied' = [applied EXCEPT
          !.returned = TRUE,
          !.t = gradient_t(applied.x, applied.y, applied.width, applied.height,
                           app.gradient_type),
          !.value = get_gradient_color(applied.x, applied.y, applied.width,
                                       applied.height, app)]
    /\ UNCHANGED <<app, code, pc, module_size, total_size, image, row, row_log, frames,
                   result, earlier, disk, ui>>

ApplyLerp ==
    /\ applied.fn = "lerp"
    /\ ~applied.returned
    /\ applied' = [applied EXCEPT !.returned = TRUE,
                                  !.value = lerp(applied.a, applied.b, applied.t)]
    /\ UNCHANGED <<app, code, pc, module_size, total_size, image, row, row_log, frames,
                   result, earlier, disk, ui>>

ApplyInterpolateRgb ==
    /\ applied.fn = "interpolate_rgb"
    /\ ~applied.returned
    /\ applied' = [applied EXCEPT
          !.returned = TRUE,
          !.value = interpolate_rgb(applied.color1, applied.color2, applied.t)]
    /\ UNCHANGED <<app, code, pc, module_size, total_size, image, row, row_log, frames,
                   result, earlier, disk, ui>>

NextColours ==
    \/ ApplyGetGradientColor
    \/ ApplyLerp
    \/ ApplyInterpolateRgb

SpecColours == InitColours /\ [][NextColours]_vars

\* C12: for each gradient mode and every position 0 <= x <= width,
\* 0 <= y <= height the factor t of get_gradient_color lies in [0, 1]; it is
\* 0 at the mode's start and 1 at its end (radial: centre, and any corner).
C12_GradientFactorRange ==
    (applied.fn = "get_gradient_color" /\ applied.returned) =>
        LET x == applied.x
            y == applied.y
            w == applied.width
            h == applied.height
            g == app.gradient_type
            start == CASE g = "Horizontal" -> x = 0
                       [] g = "Vertical" -> y = 0
                       [] g = "Diagonal" -> x = 0 /\ y = 0
                       [] g = "Radial" -> 2 * x = w /\ 2 * y = h
            end == CASE g = "Horizontal" -> x = w
                     [] g = "Vertical" -> y = h
                     [] g = "Diagonal" -> x = w /\ y = h
                     [] g = "Radial" -> x \in {0, w} /\ y \in {0, h}
        IN /\ F32Le(F32Zero, applied.t)
           /\ F32Le(applied.t, F32One)
           /\ start => applied.t = F32Zero
           /\ end => applied.t = F32One

C12_Witness ==
    /\ applied.fn = "get_gradient_color"
    /\ applied.returned
    /\ app.gradient_type = "Radial"
    /\ applied.width = MaxSizePx
    /\ applied.height = MinSizePx
    /\ applied.x = applied.width
    /\ applied.y = 0
    /\ applied.t = F32One

\* floor(a * (1 - t) + b * t) computed exactly for an f32 0 < t < 1:
\* a + floor((b - a) * t.m / 2^(-t.e)), the product kept in 12-bit limbs
StatedLerp(a, b, t) ==
    LET d == b - a
        whole == d * (t.m \div 4096) + (d * (t.m % 4096)) \div 4096
    IN a + whole \div 2^((0 - t.e) - 12)

\* C13: for all channel values a, b in 0..255, lerp(a, b, 0) = a,
\* lerp(a, b, 1) = b, and for 0 < t < 1 the result is a*(1-t) + b*t
\* truncated toward zero (black to white at 0.5 gives 127); interpolate_rgb
\* applies this per channel and returns alpha 255.
StatedLerpAt(a, b, t) ==
    IF t = F32Zero THEN a ELSE IF t = F32One THEN b ELSE StatedLerp(a, b, t)

C13_LerpTruncates ==
    /\ (applied.fn = "lerp" /\ applied.returned) =>
          applied.value = StatedLerpAt(applied.a, applied.b, applied.t)
    /\ (applied.fn = "interpolate_rgb" /\ applied.returned) =>
          applied.value =
              <<StatedLerpAt(applied.color1[1], applied.color2[1], applied.t),
                StatedLerpAt(applied.color1[2], applied.color2[2], applied.t),
                StatedLerpAt(applied.color1[3], applied.color2[3], applied.t),
                255>>

C16_OpacityStepAlone ==
    [][pc = "opacity" =>
         /\ DOMAIN image'.pix = DOMAIN image.pix
         /\ \A i \in DOMAIN image.pix :
               LET before == image.pix[i]
                   after == image'.pix[i]
               IN IF app.qr_opacity >= 100 THEN after = before
                  ELSE IF <<before[1], before[2], before[3]>> # app.bg_color
                  THEN after = [before EXCEPT
                                  ![4] = (before[4] * app.qr_opacity) \div 100]
                  ELSE after = before]_vars

\* all styling options at their defaults; the two colours are free
DefaultStyling ==
    /\ app.module_style = "Square"
    /\ app.eye_style = "Standard"
    /\ ~app.use_gradient
    /\ ~app.use_custom_eye_color
    /\ ~app.logo_image.present
    /\ ~app.bg_image.present
    /\ app.qr_opacity = 100

\* the pixel (x, y) of the canvas lies in the square of a dark module
InDarkModuleSquare(x, y) ==
    LET offset == app.border * module_size
        qr_pixel_size == code.width * module_size
    IN /\ x >= offset /\ x < offset + qr_pixel_size
       /\ y >= offset /\ y < offset + qr_pixel_size
       /\ to_colors(code, (x - offset) \div module_size,
                          (y - offset) \div module_size)

\* C18: with all styling defaults every pixel of the output is exactly the
\* foreground colour or exactly the background colour, with alpha 255; it is
\* the foreground colour if and only if it lies in the square of a dark
\* module, and each of the three 7x7 finder blocks, inset by the border
\* offset, has an all-foreground outer ring.
C18_DefaultRenderHasTwoColours ==
    (pc = "returned" /\ result.ok /\ DefaultStyling) =>
        LET offset == app.border * module_size
            w == code.width
            at(x, y) == image.pix[y * image.width + x + 1]
        IN /\ \A x, y \in 0..(image.width - 1) :
                 /\ at(x, y) \in {Rgba(app.fg_color, 255), Rgba(app.bg_color, 255)}
                 /\ at(x, y) = Rgba(app.fg_color, 255) <=> InDarkModuleSquare(x, y)
           /\ \A e \in {<<0, 0>>, <<w - 7, 0>>, <<0, w - 7>>} :
                 \A rx, ry \in 0..6 :
                    (rx \in {0, 6} \/ ry \in {0, 6}) =>
                       \A dx, dy \in 0..(module_size - 1) :
                          at(offset + (e[1] + rx) * module_size + dx,
                             offset + (e[2] + ry) * module_size + dy)
                             = Rgba(app.fg_color, 255)

C18_Witness ==
    /\ pc = "returned"
    /\ result.ok
    /\ DefaultStyling
    /\ app.border = 1
    /\ module_size = 2
    /\ image.width = 2 * (code.width + 2)
    /\ image.pix[1] = Rgba(app.bg_color, 255)
    /\ image.pix[2 * image.width + 3] = Rgba(app.fg_color, 255)

(***************************************************************************)
(* The arithmetic of apply_logo_overlay alone (images.rs:40-64): the logo  *)
(* size, the validation and the position.                                  *)
(***************************************************************************)
\* logo_size in hundredths: the slider's 0.05..0.35 (ui/tabs.rs:380) and
\* values only a preset file can hold
LogoRatios == (5..35) \cup {0, 1, 100, 101, 150}

LogoCalls ==
    {[fn |-> "apply_logo_overlay", qr_width |-> WidthOfVersion(v),
      module_size |-> m, offset |-> calc_offset(b, m), logo_size_ratio |-> r,
      returned |-> FALSE, logo_size |-> 0, err |-> "", center |-> 0] :
        v \in 1..MaxLogoVersion, m \in 1..MaxLogoModuleSize,
        b \in 0..MaxLogoBorder, r \in LogoRatios}

InitLogo ==
    /\ Idle
    /\ earlier = NoCall
    /\ disk = NoFiles
    /\ applied \in LogoCalls
    /\ app = [DefaultApp EXCEPT !.logo_image = SomeImage(<<200, 30, 30, 255>>),
                                !.logo_size = applied.logo_size_ratio]
    /\ ui = UiOf(app)
    /\ frames = 0

\* steps 1 and 3 of apply_logo_overlay; center is computed on success only
LogoGeometry ==
    /\ applied.fn = "apply_logo_overlay"
    /\ ~applied.returned
    /\ LET err == logo_error(applied.qr_width, applied.module_size,
                             applied.logo_size_ratio)
       IN applied' = [applied EXCEPT
             !.returned = TRUE,
             !.logo_size = logo_px_size(applied.qr_width, applied.module_size,
                                        applied.logo_size_ratio),
             !.err = err,
             !.center = IF err = "" THEN logo_center(applied.qr_width,
                                                     applied.module_size,
                                                     applied.offset,
                                                     applied.logo_size_ratio)
                        ELSE 0]
    /\ UNCHANGED <<app, code, pc, module_size, total_size, image, row, row_log, frames,
                   result, earlier, disk, ui>>

NextLogo == LogoGeometry

SpecLogo == InitLogo /\ [][NextLogo]_vars

\* C14: apply_logo_overlay computes logo_px_size = floor(module_count *
\* module_pixel_size * size_fraction) (25 modules of 10 px at 0.2: 50); it
\* returns an error if that is 0 or exceeds module_count * module_pixel_size
\* and succeeds otherwise.
C14_LogoSizeIsTheFloor ==
    (applied.fn = "apply_logo_overlay" /\ applied.returned) =>
        LET qr_pixel_size == applied.qr_width * applied.module_size
            stated == (qr_pixel_size * applied.logo_size_ratio) \div 100
        IN /\ applied.logo_size = stated
           /\ (applied.err # "") <=> (stated = 0 \/ stated > qr_pixel_size)

\* C15: when apply_logo_overlay succeeds the logo's top-left corner is at
\* border_offset + floor((qr_pixel_size - logo_px_size) / 2) on both axes
\* (offset 20, qr 250, logo 50: 120), the logo square lies inside the QR
\* region [border_offset, border_offset + qr_pixel_size) and its opposite
\* margins differ by at most one pixel.
C15_LogoIsCentred ==
    (applied.fn = "apply_logo_overlay" /\ applied.returned /\ applied.err = "") =>
        LET qr_pixel_size == applied.qr_width * applied.module_size
            before == applied.center - applied.offset
            after == (applied.offset + qr_pixel_size)
                         - (applied.center + applied.logo_size)
        IN /\ applied.center
                 = applied.offset + (qr_pixel_size - applied.logo_size) \div 2
           /\ before >= 0
           /\ after >= 0
           /\ after - before \in {0, 1}
           /\ (applied.offset = 20 /\ qr_pixel_size = 250 /\ applied.logo_size = 50)
                 => applied.center = 120

C15_Witness ==
    /\ applied.fn = "apply_logo_overlay"
    /\ applied.returned
    /\ applied.err = ""
    /\ applied.offset = 20
    /\ applied.qr_width = 25
    /\ applied.module_size = 10
    /\ applied.logo_size = 50
    /\ applied.center = 120

(***************************************************************************)
(* generate_qr_image called twice with the same &QrCodeApp.  The encoder   *)
(* is a function of the text and the error correction level, so the second *)
(* call gets the same symbol.                                              *)
(***************************************************************************)
TwiceSize == 2 * WidthOfVersion(1) - 1

TwiceConfigs ==
    {[a EXCEPT !.size = TwiceSize, !.border = b] :
        a \in ColourConfigs \cup ImageConfigs, b \in RenderBorders}

InitTwice ==
    /\ app \in TwiceConfigs
    /\ code \in RenderCodes
    /\ InitCall

\* the caller keeps the first result and calls again
CallAgain ==
    /\ pc = "returned"
    /\ ~earlier.made
    /\ earlier' = [made |-> TRUE, app |-> app, result |-> result,
                   image |-> image]
    /\ pc' = "call"
    /\ module_size' = 0
    /\ total_size' = 0
    /\ image' = EmptyImage
    /\ row' = 0
    /\ row_log' = <<>>
    /\ result' = NoResult
    /\ UNCHANGED <<app, code, applied, disk, ui, frames>>

NextTwice == Next \/ CallAgain

SpecTwice == InitTwice /\ [][NextTwice]_vars

PreviewTexts == {"", "https://oliverbonhamcarter.com", "too long"}
EncodeOf(text) == IF text = "too long" THEN EncodeFailure ELSE Symbol(1)

\* logo_size (in hundredths) as the slider or a loaded preset left it
PreviewLogoSizes == {1, 20}

PreviewApp == [DefaultApp EXCEPT !.size = TwiceSize]

\* egui::Color32::from_rgba_unmultiplied of an opaque or a clear pixel
from_rgba_unmultiplied(p) ==
    CASE p[4] = 255 -> p
      [] p[4] = 0 -> <<0, 0, 0, 0>>

\* ctx.load_texture("qr_preview", color_image, ..)
load_texture(img) ==
    [loaded |-> TRUE, size |-> <<img.width, img.height>>,
     pixels |-> [i \in DOMAIN img.pix |-> from_rgba_unmultiplied(img.pix[i])]]

\* a faulty variant: the preview is dropped when the render fails
preview_dropped_on_error(u, e) ==
    [u EXCEPT !.status_message = <<"Error: ", e>>,
              !.preview_texture = NoTexture]

\* the Err(e) arm of generate_preview (app.rs:281-283)
preview_on_error(u, e) ==
    [u EXCEPT !.status_message = <<"Error: ", e>>]

\* the Ok(img) arm of generate_preview (app.rs:257-280)
preview_on_image(u, img) ==
    [u EXCEPT !.preview_texture = load_texture(img),
              !.status_message = <<"QR code generated successfully! (",
                                   img.width, "x", img.height, ")">>]

\* the image files the user can pick; each is readable until it is removed
ImageFiles == {"logo.png", "background.png"}

InitPreview ==
    /\ app = PreviewApp
    /\ applied = NotApplied
    /\ earlier = NoCall
    /\ disk = [NoFiles EXCEPT !.readable = ImageFiles]
    /\ ui = UiOf(app)
    /\ frames = 0
    /\ code = EncodeOf(ui.qr_text)
    /\ pc = "idle"
    /\ module_size = 0
    /\ total_size = 0
    /\ image = EmptyImage
    /\ row = 0
    /\ row_log = <<>>
    /\ result = NoResult

\* the text box of the Basic tab (ui/tabs.rs:62)
EditText ==
    /\ pc = "idle"
    /\ \E t \in PreviewTexts :
          /\ ui' = [ui EXCEPT !.qr_text = t]
          /\ code' = EncodeOf(t)
    /\ UNCHANGED <<app, pc, module_size, total_size, image, row, row_log, frames,
                   result, applied, earlier, disk>>

\* "Select Logo" (ui/tabs.rs:345-359): the chosen file opens as an image or not
SelectLogo ==
    /\ pc = "idle"
    /\ \E opened \in {"logo.png" \in disk.readable, FALSE} :
          IF opened
          THEN /\ app' = [app EXCEPT !.logo_image = SomeImage(<<200, 30, 30, 255>>)]
               /\ ui' = [ui EXCEPT !.logo_path = SomePath("logo.png"),
                                   !.status_message = <<"Logo loaded: ", "logo.png">>]
          ELSE /\ app' = app
               /\ ui' = [ui EXCEPT !.status_message =
                                       <<"Failed to load logo: ", "logo.png">>]
    /\ UNCHANGED <<code, pc, module_size, total_size, image, row, row_log, frames,
                   result, applied, earlier, disk>>

\* "Clear" (ui/tabs.rs:363-369)
ClearLogo ==
    /\ pc = "idle"
    /\ ui.logo_path.set
    /\ app' = [app EXCEPT !.logo_image = NoImage]
    /\ ui' = [ui EXCEPT !.logo_path = NoPath,
                        !.status_message = <<"Logo cleared">>]
    /\ UNCHANGED <<code, pc, module_size, total_size, image, row, row_log, frames,
                   result, applied, earlier, disk>>

\* the logo size as the slider (ui/tabs.rs:380) or a loaded preset sets it
SetLogoSize ==
    /\ pc = "idle"
    /\ \E r \in PreviewLogoSizes : app' = [app EXCEPT !.logo_size = r]
    /\ UNCHANGED <<code, pc, module_size, total_size, image, row, row_log, frames,
                   result, applied, earlier, disk, ui>>

\* generate_preview up to the call of generate_qr_image (app.rs:247-257)
GeneratePreviewBegin ==
    /\ pc = "idle"
    /\ IF ui.qr_text = ""
       THEN /\ ui' = [ui EXCEPT !.status_message =
                                    <<"Please enter text for the QR code">>]
            /\ UNCHANGED <<pc, earlier>>
       ELSE /\ ui' = [ui EXCEPT !.status_message = <<"Generating QR code...">>]
            /\ earlier' = [made |-> TRUE, app |-> app, ui |-> ui]
            /\ pc' = "call"
    /\ UNCHANGED <<app, code, module_size, total_size, image, row, row_log, frames,
                   result, applied, disk>>

\* generate_preview after generate_qr_image returned (app.rs:257-284)
GeneratePreviewEnd ==
    /\ pc = "returned"
    /\ ui' = IF result.ok THEN preview_on_image(ui, image)
             ELSE preview_on_error(ui, result.err)
    /\ pc' = "idle"
    /\ module_size' = 0
    /\ total_size' = 0
    /\ image' = EmptyImage
    /\ row' = 0
    /\ row_log' = <<>>
    /\ result' = NoResult
    /\ earlier' = NoCall
    /\ UNCHANGED <<app, code, applied, disk, frames>>

NextPreview ==
    \/ EditText
    \/ SelectLogo
    \/ ClearLogo
    \/ SetLogoSize
    \/ GeneratePreviewBegin
    \/ Next
    \/ GeneratePreviewEnd

SpecPreview == InitPreview /\ [][NextPreview]_vars

\* C19: when generate_qr_image fails (encoding error or logo-size error) it
\* returns only an error, no partially rendered buffer, and generate_preview
\* then leaves the preview texture shown before the call and every
\* configuration field as they were; only status_message changes, to the
\* message carrying the error text.
C19_FailedRenderKeepsThePreview ==
    /\ []((pc = "returned" /\ ~result.ok) =>
             /\ image = EmptyImage
             /\ result.err \in {"Failed to create QR code",
                                "Logo size too small to render",
                                "Logo size exceeds QR code dimensions"})
    /\ [][(pc = "returned" /\ ~result.ok) =>
             /\ app' = earlier.app
             /\ ui'.status_message[2] = result.err
             /\ ui' = [earlier.ui EXCEPT !.status_message = ui'.status_message]]_vars

C19_Witness ==
    /\ pc = "idle"
    /\ ui.preview_texture.loaded
    /\ ui.status_message = <<"Error: ", "Logo size too small to render">>
    /\ app.logo_image.present

(***************************************************************************)
(* save_preset and load_preset (io.rs:69-101, 114-168).  QrCodeApp derives *)
(* Serialize and Deserialize (app.rs:21); the fields marked #[serde(skip)] *)
(* (app.rs:74-89, 104-112) are left out of the JSON and take their default *)
(* when a preset is parsed.                                                *)
(***************************************************************************)
SkippedConfig == {"logo_image", "bg_image"}

\* serde_json::to_string_pretty(app): the fields that are not skipped
to_string_pretty(a, u) ==
    [qr_text |-> u.qr_text,
     selected_tab |-> u.selected_tab,
     config |-> [f \in (DOMAIN a) \ SkippedConfig |-> a[f]]]

\* a faulty variant: a parsed preset holds the two images
from_str_config_with_images(json) ==
    [f \in DOMAIN DefaultApp |->
        IF f \in SkippedConfig THEN SomeImage(<<40, 90, 160, 255>>)
        ELSE json.config[f]]

\* serde_json::from_str::<QrCodeApp>(&json): the fields generate_qr_image reads
from_str_config(json) ==
    [f \in DOMAIN DefaultApp |->
        IF f \in SkippedConfig THEN NoImage ELSE json.config[f]]

\* a faulty variant: a parsed preset has first_frame set
from_str_ui_rearmed(json) ==
    [qr_text |-> json.qr_text,
     logo_path |-> NoPath,
     bg_image_path |-> NoPath,
     selected_tab |-> json.selected_tab,
     preview_texture |-> NoTexture,
     status_message |-> <<"">>,
     first_frame |-> TRUE]

\* serde_json::from_str::<QrCodeApp>(&json): the other fields
from_str_ui(json) ==
    [qr_text |-> json.qr_text,
     logo_path |-> NoPath,
     bg_image_path |-> NoPath,
     selected_tab |-> json.selected_tab,
     preview_texture |-> NoTexture,
     status_message |-> <<"">>,
     first_frame |-> FALSE]

\* image::open(path)
open_image(path, readable) ==
    IF path.name \notin readable THEN NoImage
    ELSE IF path.name = "logo.png" THEN SomeImage(<<200, 30, 30, 255>>)
    ELSE SomeImage(<<40, 90, 160, 255>>)

\* "Select Background" (ui/tabs.rs:418-433)
SelectBackground ==
    /\ pc = "idle"
    /\ \E opened \in {"background.png" \in disk.readable, FALSE} :
          IF opened
          THEN /\ app' = [app EXCEPT !.bg_image =
                             open_image(SomePath("background.png"), disk.readable)]
               /\ ui' = [ui EXCEPT
                           !.bg_image_path = SomePath("background.png"),
                           !.status_message = <<"Background loaded: ", "background.png">>]
          ELSE /\ app' = app
               /\ ui' = [ui EXCEPT !.status_message =
                                       <<"Failed to load background: ", "background.png">>]
    /\ UNCHANGED <<code, pc, module_size, total_size, image, row, row_log, frames,
                   result, applied, earlier, disk>>

\* "Clear" of the background (ui/tabs.rs:436-442)
ClearBackground ==
    /\ pc = "idle"
    /\ ui.bg_image_path.set
    /\ app' = [app EXCEPT !.bg_image = NoImage]
    /\ ui' = [ui EXCEPT !.bg_image_path = NoPath,
                        !.status_message = <<"Background cleared">>]
    /\ UNCHANGED <<code, pc, module_size, total_size, image, row, row_log, frames,
                   result, applied, earlier, disk>>

\* the environment: an image file is moved or deleted
RemoveFile ==
    /\ pc = "idle"
    /\ \E f \in disk.readable : disk' = [disk EXCEPT !.readable = @ \ {f}]
    /\ UNCHANGED <<app, code, pc, module_size, total_size, image, row, row_log, frames,
                   result, applied, earlier, ui>>

\* the tabs (types.rs:64-73)
TabSelections == {"Basic", "Style", "Advanced", "Images"}

\* the tab bar (ui/tabs.rs:29-32)
SelectTab ==
    /\ pc = "idle"
    /\ \E tab \in TabSelections : ui' = [ui EXCEPT !.selected_tab = tab]
    /\ UNCHANGED <<app, code, pc, module_size, total_size, image, row, row_log,
                   frames, result, applied, earlier, disk>>

\* a faulty variant: the tab stored in the file is selected
runtime_fields_from_file(loaded, current) ==
    [loaded EXCEPT !.preview_texture = NoTexture]

\* the fields load_preset sets before it looks at the paths (io.rs:127-130)
runtime_fields(loaded, current) ==
    [loaded EXCEPT !.preview_texture = NoTexture,
                   !.selected_tab = current.selected_tab]

\* save_preset (io.rs:69-101).  at_save is not in the file: it remembers the
\* paths the application held when the file was written.
SavePreset ==
    /\ pc = "idle"
    /\ \E outcome \in {"cancelled", "failed", "written"} :
          /\ ui' = [ui EXCEPT !.status_message =
                       IF outcome = "cancelled" THEN <<"Save cancelled">>
                       ELSE IF outcome = "failed"
                       THEN <<"Failed to save preset: ", "preset.json">>
                       ELSE <<"Preset saved to: ", "preset.json">>]
          /\ disk' = IF outcome = "written"
                     THEN [disk EXCEPT !.preset =
                              [saved |-> TRUE,
                               json |-> to_string_pretty(app, ui),
                               at_save |-> [logo_path |-> ui.logo_path,
                                            bg_image_path |-> ui.bg_image_path]]]
                     ELSE disk
    /\ UNCHANGED <<app, code, pc, module_size, total_size, image, row, row_log, frames,
                   result, applied, earlier>>

\* load_preset (io.rs:114-168) up to the call of generate_qr_image made by
\* its generate_preview; the texts of the model are not empty
LoadPreset ==
    /\ pc = "idle"
    /\ \E outcome \in {"cancelled", "unreadable", "unparsable", "loaded"} :
          IF outcome = "loaded"
          THEN /\ disk.preset.saved
               /\ LET json == disk.preset.json
                      loaded == runtime_fields(from_str_ui(json), ui)
                      config == from_str_config(json)
                      logo == open_image(loaded.logo_path, disk.readable)
                      bg == open_image(loaded.bg_image_path, disk.readable)
                  IN /\ app' = [config EXCEPT
                                  !.logo_image = IF loaded.logo_path.set
                                                 THEN logo ELSE @,
                                  !.bg_image = IF loaded.bg_image_path.set
                                               THEN bg ELSE @]
                     /\ ui' = [loaded EXCEPT
                                 !.logo_path = IF @.set /\ ~logo.present
                                               THEN NoPath ELSE @,
                                 !.bg_image_path = IF @.set /\ ~bg.present
                                                   THEN NoPath ELSE @,
                                 !.status_message = <<"Generating QR code...">>]
                     /\ code' = EncodeOf(json.qr_text)
                     /\ earlier' = [made |-> TRUE, app |-> app', ui |-> ui']
                     /\ applied' = [fn |-> "load_preset"]
                     /\ pc' = "call"
          ELSE /\ ui' = [ui EXCEPT !.status_message =
                            IF outcome = "cancelled" THEN <<"Load cancelled">>
                            ELSE IF outcome = "unreadable"
                            THEN <<"Failed to read preset file: ", "preset.json">>
                            ELSE <<"Failed to parse preset: ", "preset.json">>]
               /\ UNCHANGED <<app, code, earlier, applied, pc>>
    /\ UNCHANGED <<module_size, total_size, image, row, row_log, result, disk, frames>>

NextPreset ==
    \/ SelectTab
    \/ SelectLogo
    \/ ClearLogo
    \/ SelectBackground
    \/ RemoveFile
    \/ SavePreset
    \/ LoadPreset
    \/ Next
    \/ GeneratePreviewEnd

SpecPreset == InitPreview /\ [][NextPreset]_vars

FailedLoadMessages ==
    {"Load cancelled", "Failed to read preset file: ", "Failed to parse preset: "}

\* C24: a load_preset that is cancelled, cannot read the file or cannot parse
\* it changes status_message and nothing else (configuration, both images,
\* paths, text, tab and preview texture stay); a load_preset that succeeds
\* leaves the tab selected before it selected, whatever tab the file holds.
C24_LoadPresetFailuresAndTab ==
    [][LoadPreset =>
          IF ui'.status_message[1] \in FailedLoadMessages
          THEN /\ app' = app
               /\ ui' = [ui EXCEPT !.status_message = ui'.status_message]
               /\ UNCHANGED <<code, pc, image, result, disk>>
          ELSE /\ pc' = "call"
               /\ ui'.selected_tab = ui.selected_tab]_vars

C24_Witness ==
    /\ pc = "idle"
    /\ ui.status_message[1] = "Failed to parse preset: "
    /\ applied.fn = "load_preset"
    /\ ui.preview_texture.loaded
    /\ app.logo_image.present
    /\ disk.preset.saved
    /\ disk.preset.json.selected_tab # ui.selected_tab

\* C20: saving a preset while a logo (or background image) path is set and
\* then loading that preset yields a configuration whose logo_path
\* (bg_image_path) is the saved path, with the image re-opened from it, when
\* the file is readable, and with both path and image absent when it is not;
\* the image data itself is never part of the saved record.
C20_PresetKeepsImagePaths ==
    (disk.preset.saved /\ pc # "idle") =>
        LET at_save == disk.preset.at_save
        IN /\ at_save.logo_path.set =>
                 IF at_save.logo_path.name \in disk.readable
                 THEN ui.logo_path = at_save.logo_path /\ app.logo_image.present
                 ELSE ~ui.logo_path.set /\ ~app.logo_image.present
           /\ at_save.bg_image_path.set =>
                 IF at_save.bg_image_path.name \in disk.readable
                 THEN ui.bg_image_path = at_save.bg_image_path
                      /\ app.bg_image.present
                 ELSE ~ui.bg_image_path.set /\ ~app.bg_image.present
           /\ DOMAIN disk.preset.json.config \cap SkippedConfig = {}

\* what holds of C20: the record holds no image, and after a load path and
\* image are both absent
C20_LoadedPresetHasNoImages ==
    (disk.preset.saved /\ pc # "idle") =>
        /\ ~ui.logo_path.set /\ ~app.logo_image.present
        /\ ~ui.bg_image_path.set /\ ~app.bg_image.present
        /\ DOMAIN disk.preset.json.config \cap SkippedConfig = {}

(***************************************************************************)
(* Further properties of the render and of the single-module drawings.     *)
(***************************************************************************)
\* the light ring of a finder block: max(|rx - 3|, |ry - 3|) = 2
LightRing(rx, ry) ==
    /\ rx \in 1..5 /\ ry \in 1..5
    /\ (rx \in {1, 5} \/ ry \in {1, 5})

\* C21: with the circle eye style the finder pattern keeps its structure:
\* every dark module of a finder block is painted (a fill routine is called
\* for it) and the unpainted positions are exactly the light ring.
C21_CircleEyesKeepTheFinderPattern ==
    \A k \in 1..Len(row_log) :
        LET cell == row_log[k]
            painted == cell.calls # <<>>
        IN (cell.blocks >= 1 /\ app.eye_style = "Circle") =>
              /\ FinderDark(cell.rel[1], cell.rel[2]) => painted
              /\ ~painted <=> LightRing(cell.rel[1], cell.rel[2])

\* what holds of C21: the light ring is never painted and the outer ring and
\* the centre always are
C21_CircleEyesOuterRingAndCentre ==
    \A k \in 1..Len(row_log) :
        LET cell == row_log[k]
            rx == cell.rel[1]
            ry == cell.rel[2]
        IN (cell.blocks >= 1 /\ app.eye_style = "Circle") =>
              /\ LightRing(rx, ry) => cell.calls = <<>>
              /\ (rx \in {0, 6} \/ ry \in {0, 6} \/ (rx = 3 /\ ry = 3))
                    => Len(cell.calls) = 1
              /\ (rx \in 2..4 /\ ry \in 2..4 /\ ~(rx = 3 /\ ry = 3))
                    => cell.calls = <<>>

\* the pixel (x, y) lies under the square the logo overlay covers
UnderLogo(x, y) ==
    /\ app.logo_image.present
    /\ LET c == logo_center(code.width, module_size,
                            calc_offset(app.border, module_size), app.logo_size)
           s == logo_px_size(code.width, module_size, app.logo_size)
       IN x >= c /\ x < c + s /\ y >= c /\ y < c + s

\* the returned pixels outside every dark module's square and outside the
\* logo all have alpha 255
UnpaintedPixelsAreOpaque ==
    \A x, y \in 0..(image.width - 1) :
        (~InDarkModuleSquare(x, y) /\ ~UnderLogo(x, y))
            => image.pix[y * image.width + x + 1][4] = 255

\* C22: the overall-opacity step affects QR modules only, not the
\* background: in the returned buffer every pixel that was never painted by
\* a module or by the logo has alpha 255, with or without a background image.
C22_OpacityLeavesTheBackgroundOpaque ==
    (pc = "returned" /\ result.ok) => UnpaintedPixelsAreOpaque

\* what holds of C22: the same without a background image
C22_SolidBackgroundStaysOpaque ==
    (pc = "returned" /\ result.ok /\ ~app.bg_image.present)
        => UnpaintedPixelsAreOpaque

(***************************************************************************)
(* The application frame by frame: eframe calls update (app.rs:173-240)    *)
(* once per frame; update first runs the automatic preview (app.rs:175-178)*)
(* and then the handler of the widget clicked, if any.  A handler          *)
(* therefore starts with first_frame false, and a frame in which nothing   *)
(* happens leaves the state as it is.  The text stays the default one.      *)
(***************************************************************************)
InitApp ==
    /\ app = PreviewApp
    /\ applied = NotApplied
    /\ earlier = NoCall
    /\ disk = [NoFiles EXCEPT !.readable = ImageFiles]
    /\ ui = DefaultUi
    /\ frames = 0
    /\ code = EncodeOf(ui.qr_text)
    /\ pc = "idle"
    /\ module_size = 0
    /\ total_size = 0
    /\ image = EmptyImage
    /\ row = 0
    /\ row_log = <<>>
    /\ result = NoResult

\* update up to its panels (app.rs:173-178): the automatic preview
UpdateBegin ==
    /\ pc = "idle"
    /\ frames < MaxFrames
    /\ frames' = frames + 1
    /\ IF ~ui.first_frame
       THEN UNCHANGED <<ui, earlier, pc>>
       ELSE IF ui.qr_text = ""
       THEN /\ ui' = [ui EXCEPT !.first_frame = FALSE,
                                !.status_message =
                                    <<"Please enter text for the QR code">>]
            /\ UNCHANGED <<earlier, pc>>
       ELSE /\ ui' = [ui EXCEPT !.first_frame = FALSE,
                                !.status_message = <<"Generating QR code...">>]
            /\ earlier' = [made |-> TRUE, app |-> app,
                           ui |-> [ui EXCEPT !.first_frame = FALSE]]
            /\ pc' = "call"
    /\ UNCHANGED <<app, code, module_size, total_size, image, row, row_log,
                   result, applied, disk>>

\* "Reset" (app.rs:188-191): *self = Self::default(); first_frame = true
Reset ==
    /\ pc = "idle"
    /\ app' = PreviewApp
    /\ ui' = [DefaultUi EXCEPT !.first_frame = TRUE]
    /\ code' = EncodeOf(DefaultUi.qr_text)
    /\ frames' = 0
    /\ UNCHANGED <<pc, module_size, total_size, image, row, row_log, result,
                   applied, earlier, disk>>

\* the handler of the widget clicked in this frame
Handler ==
    \/ Reset
    \/ SelectLogo
    \/ ClearLogo
    \/ SelectBackground
    \/ ClearBackground
    \/ SavePreset
    \/ LoadPreset
    \/ GeneratePreviewBegin

NextApp ==
    \/ UpdateBegin
    \/ ~ui.first_frame /\ Handler
    \/ Next
    \/ GeneratePreviewEnd

SpecApp == InitApp /\ [][NextApp]_vars

\* C23: update generates the preview by itself exactly on the first frame
\* after start-up and on the first frame after each Reset: first_frame is
\* true only before the first update and between a Reset and the next
\* update, and a loaded preset never sets it.
C23_AutoPreviewOnFirstFrameOnly ==
    /\ [](ui.first_frame <=> frames = 0)
    /\ [][frames' > frames => (pc' = "call" <=> frames = 0)]_vars

C23_Witness ==
    /\ pc = "idle"
    /\ applied.fn = "load_preset"
    /\ ~ui.first_frame
    /\ frames = MaxFrames
    /\ ui.preview_texture.loaded

\* C27: through Select Logo and Select Background (succeeding or failing),
\* the two Clear buttons, Reset, Save Preset and Load Preset, logo_path is set
\* exactly when logo_image is set and bg_image_path is set exactly when
\* bg_image is set.
C27_PathsMatchImages ==
    /\ ui.logo_path.set <=> app.logo_image.present
    /\ ui.bg_image_path.set <=> app.bg_image.present

C27_Witness ==
    /\ pc = "idle"
    /\ applied.fn = "load_preset"
    /\ ui.status_message[1] = "Failed to load background: "
    /\ ui.logo_path.set
    /\ app.logo_image.present
    /\ ~ui.bg_image_path.set
    /\ ~app.bg_image.present

\* C28: for every module size >= 1 and every module shape (square, circle,
\* rounded square with any radius fraction, dots) drawing a dark data module
\* sets at least one pixel of the module's square to the module colour.
C28_DarkDataModuleIsVisible ==
    \A k \in 1..Len(row_log) :
        LET cell == row_log[k]
        IN (cell.routine = "data" /\ cell.dark) =>
              \E d \in Offsets(module_size) :
                  get_pixel(image, cell.px + d[1], cell.py + d[2])
                      = data_module_color(image, app, cell.px, cell.py)

\* what holds: from module size 2 on a dark data module is visible
C28_VisibleFromSizeTwo ==
    module_size >= 2 => C28_DarkDataModuleIsVisible

\* the cell draws with the gradient colour
UsesGradient(cell) ==
    /\ app.use_gradient
    /\ cell.routine = "data" \/ (cell.routine = "eye" /\ ~app.use_custom_eye_color)

\* C29: with a gradient enabled every pixel painted for one module has one
\* colour, the gradient colour at the module's top-left pixel (px, py)
\* evaluated against the width and height of the whole canvas, border
\* included; it is not evaluated per painted pixel.
C29_OneGradientColourPerModule ==
    (pc \in {"modules", "logo"}) =>
        \A c \in LoggedCalls :
            LET cell == row_log[c[1]]
                call == cell.calls[c[2]]
                at_corner == get_gradient_color(cell.px, cell.py, total_size,
                                                total_size, app)
            IN UsesGradient(cell) =>
                  /\ image.width = total_size /\ image.height = total_size
                  /\ \A p \in Written(call) : get_pixel(image, p[1], p[2]) = at_corner

C29_Witness ==
    /\ pc = "modules"
    /\ app.use_gradient
    /\ app.border = MaxRenderBorder
    /\ module_size >= 2
    /\ \E c \in LoggedCalls :
          LET cell == row_log[c[1]]
              call == cell.calls[c[2]]
              last == call.writes[Len(call.writes)]
          IN /\ cell.routine = "data"
             /\ Len(call.writes) = module_size * module_size
             /\ get_pixel(image, last[1], last[2])
                   # get_gradient_color(last[1], last[2], total_size, total_size, app)
             /\ call.color # get_gradient_color(cell.px, cell.py,
                                                calc_actual_qr_size(module_size, code.width),
                                                calc_actual_qr_size(module_size, code.width),
                                                app)

\* C30: for every module size S and every radius fraction in [0, 1]
\* draw_rounded_square rounds the four corners alike: the pixel at offset
\* (dx, dy) is filled iff those at (S-1-dx, dy) and (dx, S-1-dy) are filled.
C30_RoundedSquareIsSymmetric ==
    \A c \in LoggedCalls :
        LET cell == row_log[c[1]]
            call == cell.calls[c[2]]
            S == module_size
            filled(dx, dy) == <<cell.px + dx, cell.py + dy>> \in Written(call)
        IN call.shape = "rounded_square" =>
              \A dx, dy \in 0..(S - 1) :
                  filled(dx, dy) <=> (filled(S - 1 - dx, dy) /\ filled(dx, S - 1 - dy))

\* what holds: the filled pixels are symmetric about the main diagonal of
\* the module, and with radius 0 the whole square is filled
C30_RoundedSquareDiagonalSymmetry ==
    \A c \in LoggedCalls :
        LET cell == row_log[c[1]]
            call == cell.calls[c[2]]
            S == module_size
            filled(dx, dy) == <<cell.px + dx, cell.py + dy>> \in Written(call)
        IN call.shape = "rounded_square" =>
              /\ \A dx, dy \in 0..(S - 1) : filled(dx, dy) <=> filled(dy, dx)
              /\ call.radius = 0 => \A dx, dy \in 0..(S - 1) : filled(dx, dy)

\* n is a value of an unsigned 32-bit integer
FitsU32(n) == n >= 0 /\ n \div 65536 < 65536

\* C25: for every size in [128, 2048], border in [0, 10] and module count in
\* [21, 177], 2 * border * floor(size / count) is at most size, so the
\* subtraction of the module-size computation does not go below zero, and
\* every intermediate value of the geometry (module size, canvas size,
\* offset, pixel coordinates of the modules) is below 2^32.  The pixel
\* coordinates grow with the module index, so the last module bounds them.
C25_GeometryStaysInU32 ==
    (pc = "base" /\ SliderRanges) =>
        LET per_module == app.size \div code.width
            charged == 2 * app.border * per_module
            offset == calc_offset(app.border, module_size)
            first == module_px(offset, 0, module_size)
            last == module_px(offset, code.width - 1, module_size)
        IN /\ charged <= app.size
           /\ module_size >= 0
           /\ module_size * code.width <= app.size - charged
           /\ \A n \in {per_module, 2 * app.border, charged, app.size - charged,
                         module_size, calc_actual_qr_size(module_size, code.width),
                         2 * app.border * module_size, total_size, offset,
                         (code.width - 1) * module_size, first, last,
                         last + module_size} : FitsU32(n)
           /\ last + module_size <= total_size

C25_Witness ==
    /\ pc = "base"
    /\ SliderRanges
    /\ app.size = MinSizePx
    /\ app.border = MaxBorderModules
    /\ code.width = WidthOfVersion(1)
    /\ 2 * app.border * (app.size \div code.width) = app.size - 8
    /\ module_size = 0

(***************************************************************************)
(* The configuration on its way to generate_qr_image: the sliders and      *)
(* colour presets of the tabs, preset files written outside the            *)
(* application, load_preset and generate_preview, with steps 1 and 2 of    *)
(* the call.  The application starts with QrCodeApp::default().            *)
(***************************************************************************)
\* the sliders (ui/tabs.rs:86, 94, 242, 302, 380, 453): both ends of each
\* range and the default value; corner_radius in tenths, the others of type
\* f32 in hundredths
SliderValues ==
    [size |-> {MinSizePx, DefaultApp.size, MaxSizePx},
     border |-> {0, DefaultApp.border, MaxBorderModules},
     corner_radius |-> {0, DefaultApp.corner_radius, 10},
     qr_opacity |-> {0, DefaultApp.qr_opacity},
     logo_size |-> {5, DefaultApp.logo_size, 35},
     bg_image_opacity |-> {0, DefaultApp.bg_image_opacity, 100}]

\* COLOR_PRESETS (types.rs:124): two of them
ColorPresets == {[name |-> "Classic", fg |-> DefaultFg, bg |-> DefaultBg],
                 [name |-> "Night", fg |-> NightFg, bg |-> NightBg]}

\* preset files as an editor or another version of the program writes them:
\* serde accepts any u32 and any f32 for the numeric fields
WellFormedPresets ==
    {to_string_pretty([DefaultApp EXCEPT ![fv[1]] = fv[2]], DefaultUi) :
        fv \in {<<"size", 64>>, <<"size", MinSizePx>>, <<"size", 4096>>,
                <<"corner_radius", 15>>, <<"qr_opacity", 150>>,
                <<"logo_size", 1>>, <<"logo_size", 40>>,
                <<"bg_image_opacity", 150>>}}

InitConfig ==
    /\ app = DefaultApp
    /\ applied = NotApplied
    /\ earlier = NoCall
    /\ disk = NoFiles
    /\ ui = [DefaultUi EXCEPT !.first_frame = FALSE]
    /\ frames = 1
    /\ code = EncodeOf(ui.qr_text)
    /\ pc = "idle"
    /\ module_size = 0
    /\ total_size = 0
    /\ image = EmptyImage
    /\ row = 0
    /\ row_log = <<>>
    /\ result = NoResult

\* a slider is dragged
SetSlider ==
    /\ pc = "idle"
    /\ \E f \in DOMAIN SliderValues : \E v \in SliderValues[f] :
          app' = [app EXCEPT ![f] = v]
    /\ UNCHANGED <<code, pc, module_size, total_size, image, row, row_log, frames,
                   result, applied, earlier, disk, ui>>

\* a "Quick Presets" button (ui/tabs.rs:170-176)
ApplyColorPreset ==
    /\ pc = "idle"
    /\ \E preset \in ColorPresets :
          /\ app' = [app EXCEPT !.fg_color = preset.fg, !.bg_color = preset.bg]
          /\ ui' = [ui EXCEPT !.status_message =
                                  <<"Applied ", preset.name, " preset">>]
    /\ UNCHANGED <<code, pc, module_size, total_size, image, row, row_log, frames,
                   result, applied, earlier, disk>>

\* the environment: a preset file is put where the file dialog finds it
WritePresetFile ==
    /\ pc = "idle"
    /\ \E json \in WellFormedPresets :
          disk' = [disk EXCEPT !.preset =
                      [saved |-> TRUE, json |-> json,
                       at_save |-> [logo_path |-> NoPath,
                                    bg_image_path |-> NoPath]]]
    /\ UNCHANGED <<app, code, pc, module_size, total_size, image, row, row_log,
                   frames, result, applied, earlier, ui>>

NextConfig ==
    \/ SetSlider
    \/ ApplyColorPreset
    \/ WritePresetFile
    \/ LoadPreset
    \/ GeneratePreviewBegin
    \/ GenerateMatrix
    \/ CalculateDimensions

SpecConfig == InitConfig /\ [][NextConfig]_vars

InSliderRanges(a) ==
    /\ a.size \in MinSizePx..MaxSizePx
    /\ a.border \in 0..MaxBorderModules
    /\ a.corner_radius \in 0..10
    /\ a.logo_size \in 5..35
    /\ a.qr_opacity \in 0..100
    /\ a.bg_image_opacity \in 0..100

\* C26: the configuration handed to generate_qr_image has size in
\* [128, 2048], border in [0, 10], corner_radius in [0, 1], logo_size in
\* [0.05, 0.35] and both opacities in [0, 1], whatever sliders, colour
\* presets and well-formed preset files led to the call.
C26_ConfigurationInSliderRanges ==
    pc # "idle" => InSliderRanges(app)

\* what holds: the ranges are kept as long as no preset has been loaded
C26_RangesWithoutLoadedPreset ==
    applied.fn # "load_preset" => InSliderRanges(app)

=============================================================================
